---------------------------- MODULE Spec2Model ----------------------------
(***************************************************************************)
(* shellbuddy: the rule dispatcher (kb_engine.py), the legacy reflex rules, *)
(* the unified context log and the daemon's control loop (hint_daemon.py).  *)
(*                                                                         *)
(* A command is the sequence of its whitespace-separated tokens, i.e. the  *)
(* value of cmd.split(); cmd.strip() does not change that sequence.  A      *)
(* token is a string; what the code asks about a token's characters        *)
(* (lower(), isalpha(), "=" in tok, the leading identifier) is the table   *)
(* TokLower / TokIsAlpha / TokHasEq / TokIdent below.                       *)
(*                                                                         *)
(* A regular expression of the corpus is modelled by the token-level       *)
(* pattern it denotes: anchored or not, a sequence of alternatives, and    *)
(* what follows them (nothing required, more input required by a trailing  *)
(* \s+, or end of input required by $).                                    *)
(***************************************************************************)
EXTENDS Integers, Sequences, FiniteSets, TLC

VARIABLES
    \* ---- rule dispatcher (kb_engine.py) ----
    kbBuckets,      \* KBEngine._buckets : bucket key -> sequence of rules
    kbGeneric,      \* KBEngine._generic : sequence of rules
    kbBad,          \* the `bad` counter of KBEngine.load
    kbCorpus,       \* the corpus that was handed to KBEngine.load
    scanCmd,        \* the command of the last KBEngine.scan call
    scanToken,      \* the bucket token that call computed
    scanResult,     \* the entries that call returned
    scanCalled,     \* whether scan has been called at all
    \* ---- the control loop of run(), reflex tier and ambient-hint task ----
    now,            \* time.time()
    ticks,          \* how many iterations the control loop has made
    cmdLog,         \* cmd_log.jsonl: the sequence of command events
    last_hint_check,
    last_cmd_count,
    last_cwd,
    last_ai_call,
    rule_last_shown,\* rule id -> time it was last surfaced
    hintThread,     \* the _run_hint task: its arguments and its position
    hintsFile,      \* current_hints.txt: header fields and the reflex hints
    \* ---- the unified context log (ctx_append / ctx_read) ----
    ctxFile,        \* unified_context.jsonl: whether it exists, and its lines
    ctxTmp,         \* unified_context.tmp
    ctxLock,        \* _ctx_lock: the thread that holds it, or NoOwner
    ctxThreads,     \* per thread: position in ctx_append, its locals, and
                    \* what its last ctx_read returned
    ctxLastWriter,  \* the thread whose rename produced the current ctxFile
    \* ---- the background tasks of run() ----
    hintTasks,      \* the _run_hint threads that are alive: id -> its state
    hint_thread,    \* _hint_thread: the id of the thread started last
    advisorTasks,   \* the _run_advisor threads that are alive
    advisor_thread, \* _advisor_thread
    last_advisor_call,
    last_advisor_cmd,
    pmTasks,        \* the _run_pm threads that are alive
    post_mortem_thread,     \* _post_mortem_thread
    last_post_mortem_cmd,   \* _last_post_mortem_cmd
    chain,          \* the last _call_copilot_chain call: what each model
                    \* yielded, the models it tried, what it returned
    \* ---- the expert tier (handle_tip_query) ----
    TIP_BACKEND,        \* the configured backend of /tip
    availableBackends,  \* _AVAILABLE_BACKENDS after _probe_backends
    tipQuery,           \* tip_query.txt
    tipResult,          \* tip_result.txt
    postMortemOut,      \* post_mortem.txt
    transportCalls,     \* how many prompts were handed to a backend transport
    tipQueries,         \* how many queries the user has written
    \* ---- the output files, written step by step ----
    tipTmp,             \* tip_result.tmp
    writers,            \* per thread: the file write it is in the middle of
    \* ---- startup ----
    kbFile,             \* kb.json: absent, unreadable, or holding kbCorpus
    configFile,         \* config.json
    daemon,             \* how far the daemon process has come
    HINT_BACKEND,       \* the configured backend of the ambient and advisor tiers
    \* ---- the Copilot backend (backends/copilot.py) ----
    tokenCache,         \* TOKEN_CACHE, copilot_token.json
    copNow,             \* time.time() at the calls of the backend
    copCall,            \* the last call of the backend: its inputs and what it did
    \* ---- the control loop between its reads and its decisions ----
    loopRead,           \* whether the iteration has evaluated ai_ready, and to what
    \* ---- the text of the hint output ----
    hintsText           \* the last write_hints call: its arguments and the text
                        \* it wrote to current_hints.txt, line by line

kbVars == <<kbBuckets, kbGeneric, kbBad, kbCorpus, scanCmd, scanToken,
            scanResult, scanCalled>>

reflexVars == <<now, ticks, cmdLog, last_hint_check, last_cmd_count, last_cwd,
                last_ai_call, rule_last_shown, hintThread, hintsFile>>

\* the control loop's variables other than the clock
reflexRest == <<ticks, cmdLog, last_hint_check, last_cmd_count, last_cwd,
                last_ai_call, rule_last_shown, hintThread, hintsFile>>

ctxVars == <<ctxFile, ctxTmp, ctxLock, ctxThreads, ctxLastWriter>>

pmVars == <<pmTasks, post_mortem_thread, last_post_mortem_cmd, chain>>

taskVars == <<hintTasks, hint_thread, advisorTasks, advisor_thread,
              last_advisor_call, last_advisor_cmd, pmVars>>

tipVars == <<TIP_BACKEND, availableBackends, tipQuery, tipResult, postMortemOut,
             transportCalls, tipQueries>>

copVars == <<tokenCache, copNow, copCall>>

\* the files the backends keep are left alone wherever the output files are
ioVars == <<tipTmp, writers, copVars, loopRead, hintsText>>

startVars == <<kbFile, configFile, daemon, HINT_BACKEND>>

vars == <<kbVars, reflexVars, ctxVars, taskVars, tipVars, ioVars, startVars>>

\* what the actions of each part leave alone
outsideKB == <<reflexVars, ctxVars, taskVars, tipVars, ioVars, startVars>>
outsideReflex == <<kbVars, ctxVars, taskVars, tipVars, ioVars, startVars>>
outsideCtx == <<kbVars, reflexRest, taskVars, tipVars, ioVars, startVars>>
outsideTasks == <<kbVars, ctxVars, tipVars, ioVars, startVars, rule_last_shown,
                  hintThread, hintsFile>>
outsideTip == <<kbVars, reflexVars, taskVars, ioVars, startVars, ctxTmp, ctxLock,
                ctxThreads>>

None == "none"

\* ---- a daemon that was started with kb.json in place and no config.json ----

\* config.json does not exist
NoConfig == [kind |-> "absent", hint_backend |-> None, tip_backend |-> None]

StartIdle ==
    /\ kbFile = "ok"
    /\ configFile = NoConfig
    /\ daemon = "running"
    /\ HINT_BACKEND = "copilot"

\* ---- the context log before any thread has touched it ----

\* the threads of the daemon that call ctx_append: the control loop, the
\* ambient-hint task and the advisor task
CtxThreads == {"loop", "hint", "advisor"}

NoOwner == "free"

\* a path at which no file exists
NoFile == [exists |-> FALSE, lines |-> <<>>]

\* a thread that is in neither ctx_append nor ctx_read
CtxThreadIdle == [pc |-> "idle", calls |-> 0, entry |-> <<>>, line |-> <<>>,
                  existing |-> <<>>, out |-> <<>>]

CtxIdle ==
    /\ ctxFile = NoFile
    /\ ctxTmp = NoFile
    /\ ctxLock = NoOwner
    /\ ctxThreads = [t \in CtxThreads |-> CtxThreadIdle]
    /\ ctxLastWriter = NoOwner

\* ---- run() before any background task was started ----

\* _hint_thread = None
NoHandle == 0

\* the threading.Thread objects alive: none
NoTasks == [id \in {} |-> <<>>]

\* _call_copilot_chain has not been called
NoChain == [yields |-> <<>>, tried |-> <<>>, result |-> None]

TaskIdle ==
    /\ hintTasks = NoTasks
    /\ hint_thread = NoHandle
    /\ advisorTasks = NoTasks
    /\ advisor_thread = NoHandle
    /\ last_advisor_call = 0
    /\ last_advisor_cmd = 0
    /\ pmTasks = NoTasks
    /\ post_mortem_thread = NoHandle
    /\ last_post_mortem_cmd = 0
    /\ chain = NoChain

\* ---- the expert tier with no backend and no query ----

TipIdle ==
    /\ TIP_BACKEND = "copilot"
    /\ availableBackends = {}
    /\ tipQuery = NoFile
    /\ tipResult = NoFile
    /\ postMortemOut = NoFile
    /\ transportCalls = 0
    /\ tipQueries = 0

\* ---- the Copilot backend before any call ----

\* copilot_token.json does not exist
NoCache == [exists |-> FALSE, expires_at |-> 0]

\* call_copilot has not been called
NoCall == [via |-> "none", before |-> NoCache, at |-> 0, gh |-> FALSE,
           refresh |-> 0, http |-> "none", posted |-> FALSE, reused |-> FALSE,
           result |-> None]

CopIdle ==
    /\ tokenCache = NoCache
    /\ copNow = 0
    /\ copCall = NoCall

\* ---- the control loop at the top of an iteration ----

LoopAtTop == [pc |-> "top", ai_ready |-> FALSE]

\* ---- current_hints.txt before any write_hints ----

NoText == [called |-> FALSE, rule_hints |-> <<>>, ai_hints |-> <<>>,
           thinking |-> FALSE, text |-> <<>>]

\* ---- no file write in progress ----

\* the threads that write the output files
Writers == {"loop", "hint"}

IoIdle ==
    /\ tipTmp = NoFile
    /\ writers = [w \in Writers |-> [pc |-> "idle", text |-> <<>>]]

-----------------------------------------------------------------------------
(* Tokens and commands *)

Tokens == {"sudo", "git", "Git", "rm", "-rf", "FOO=1"}

\* tokens that occur only in the named example commands
ExtraTokens == {"commit", "-m", "\"x\"", "/"}

\* str.lower()
TokLower(t) ==
    CASE t = "Git"   -> "git"
      [] t = "FOO=1" -> "foo=1"
      [] t = "FOO"   -> "foo"
      [] OTHER       -> t

\* "=" in tok
TokHasEq(t) == t \in {"FOO=1", "foo=1"}

\* str.isalpha()
TokIsAlpha(t) == t \in {"sudo", "git", "Git", "rm", "commit", "push"}

\* group(1) of re.match(r'^\^?\(?([a-zA-Z][a-zA-Z0-9_-]*)', "^" + tok ...),
\* None when the token does not start with a letter
TokIdent(t) ==
    IF t \in {"sudo", "git", "Git", "rm", "commit", "push"} THEN t
    ELSE IF t = "FOO=1" THEN "FOO"
    ELSE None

MaxCmdLen == 2

RECURSIVE SeqsUpTo(_, _)
SeqsUpTo(S, n) ==
    IF n = 0 THEN {<<>>}
    ELSE LET shorter == SeqsUpTo(S, n - 1)
         IN  shorter \cup {Append(s, x) : s \in shorter, x \in S}

\* the spec's example commands
CmdSudoGitCommit == <<"sudo", "git", "commit", "-m", "\"x\"">>
CmdRmRfRoot      == <<"rm", "-rf", "/">>
CmdSudoRmRf      == <<"sudo", "rm", "-rf", "/">>
CmdSudoEnvGit    == <<"sudo", "FOO=1", "git">>
CmdEnvSudoGit    == <<"FOO=1", "sudo", "git">>

Commands == SeqsUpTo(Tokens, MaxCmdLen)
              \cup {CmdSudoGitCommit, CmdRmRfRoot, CmdSudoRmRf, CmdSudoEnvGit,
                    CmdEnvSudoGit}

-----------------------------------------------------------------------------
(* Patterns: re.compile(p).search(cmd) *)

Pat(anch, toks, tail) == [anch |-> anch, toks |-> toks, tail |-> tail]

InSeq(x, s) == \E i \in 1..Len(s) : s[i] = x

SeqToSet(s) == {s[i] : i \in 1..Len(s)}

\* the pattern's alternatives match the tokens of cmd from position i on
MatchAt(p, cmd, i) ==
    LET n == Len(p.toks) IN
    /\ i + n - 1 <= Len(cmd)
    /\ \A k \in 1..n : InSeq(cmd[i + k - 1], p.toks[k])
    /\ CASE p.tail = "end"  -> i + n - 1 = Len(cmd)
         [] p.tail = "more" -> i + n - 1 < Len(cmd)
         [] OTHER           -> TRUE

\* compiled.search(cmd): an anchored pattern only at the start
Search(p, cmd) ==
    IF p.anch THEN MatchAt(p, cmd, 1)
    ELSE \E i \in 1..(Len(cmd) + 1) : MatchAt(p, cmd, i)


-----------------------------------------------------------------------------
(* Rules and the corpus (kb.json as written by kb_builder.py) *)

Rule(id, cmd, pat, sev, valid) ==
    [id |-> id, cmd |-> cmd, pattern |-> pat, severity |-> sev, valid |-> valid]

\* "^git"
RuleGit     == Rule("git-001", "git", Pat(TRUE, <<(<<"git">>)>>, "any"), "tip", TRUE)
\* "^rm\s+-rf\s+[/~]\s*$"
RuleRmRoot  == Rule("gnu-001", "rm",
                    Pat(TRUE, <<(<<"rm">>), (<<"-rf">>), (<<"/", "~">>)>>, "end"),
                    "danger", TRUE)
\* "^rm\s+"
RuleRm      == Rule("gnu-002", "rm", Pat(TRUE, <<(<<"rm">>)>>, "more"), "upgrade", TRUE)
\* "^sudo\s+rm\b"
RuleSudoRm  == Rule("users-001", "sudo",
                    Pat(TRUE, <<(<<"sudo">>), (<<"rm">>)>>, "any"), "danger", TRUE)
\* "-rf\b", no cmd field: the generic bucket
RuleAnyRf   == Rule("gen-001", "", Pat(FALSE, <<(<<"-rf">>)>>, "any"), "warn", TRUE)
\* "^FOO=1\s+", no cmd field: bucketed by the pattern's leading identifier
RuleEnv     == Rule("gpu-001", "", Pat(TRUE, <<(<<"FOO=1">>)>>, "more"), "tip", TRUE)
\* "^git(" : re.compile raises re.error
RuleBad     == Rule("git-002", "git", Pat(TRUE, <<(<<"git">>)>>, "any"), "warn", FALSE)

\* "^rm\s+-rf\b"
RuleRmRf    == Rule("gnu-003", "rm", Pat(TRUE, <<(<<"rm">>), (<<"-rf">>)>>, "any"), "warn", TRUE)

\* a record without the key "pattern"
NoPattern == Pat(FALSE, <<>>, "absent")

\* {"id": "git-003", "cmd": "git", "severity": "tip", "hint": ...}
RuleNoPattern == Rule("git-003", "git", NoPattern, "tip", FALSE)

RuleUniverse ==
    <<RuleBad, RuleGit, RuleNoPattern, RuleEnv, RuleSudoRm, RuleRm, RuleRmRf, RuleRmRoot, RuleAnyRf>>

\* a kb.json in which the record of one rule stands twice
DupCorpus == <<RuleRm, RuleRm>>

\* the corpora of the model: the contiguous slices of RuleUniverse, and DupCorpus
Corpora ==
    {<<>>, DupCorpus} \cup {SubSeq(RuleUniverse, i, j) : i, j \in 1..Len(RuleUniverse)}

-----------------------------------------------------------------------------
(* KBEngine.load *)

DictGet(d, k, default) == IF k \in DOMAIN d THEN d[k] ELSE default

DictPut(d, k, v) == [x \in (DOMAIN d) \cup {k} |-> IF x = k THEN v ELSE d[x]]

EmptyDict == [x \in {} |-> <<>>]

\* m.group(1) of the fallback re.match on entry["pattern"], None without a match
PatternIdent(p) ==
    IF Len(p.toks) = 0 THEN None ELSE TokIdent(p.toks[1][1])

\* the bucket key load files a rule under; None is the generic bucket
BucketKey(r) ==
    LET cmd_token == TokLower(r.cmd) IN
    IF cmd_token # "" /\ TokIsAlpha(cmd_token) THEN cmd_token
    ELSE IF PatternIdent(r.pattern) # None THEN TokLower(PatternIdent(r.pattern))
    ELSE None

\* one iteration of the loop `for entry in data`; entry["pattern"] of a record
\* without that key raises KeyError, which the except clause (re.error) does
\* not catch: the loop ends there
LoadEntry(eng, entry) ==
    IF eng.raised THEN eng
    ELSE IF entry.pattern = NoPattern THEN [eng EXCEPT !.raised = TRUE]
    ELSE IF ~entry.valid THEN [eng EXCEPT !.bad = @ + 1]
    ELSE IF BucketKey(entry) # None
         THEN [eng EXCEPT !.buckets =
                   DictPut(@, BucketKey(entry),
                           Append(DictGet(@, BucketKey(entry), <<>>), entry))]
         ELSE [eng EXCEPT !.generic = Append(@, entry)]

RECURSIVE LoadFrom(_, _)
LoadFrom(eng, data) ==
    IF data = <<>> THEN eng
    ELSE LoadFrom(LoadEntry(eng, Head(data)), Tail(data))

\* an engine as __init__ leaves it before load
NewEngine == [buckets |-> EmptyDict, generic |-> <<>>, bad |-> 0, raised |-> FALSE]

\* KBEngine.__init__ followed by load(path).  An exception of load leaves
\* __init__ and KBEngine(): the caller gets no engine, and nothing is loaded.
Load(data) ==
    IF LoadFrom(NewEngine, data).raised
    THEN [NewEngine EXCEPT !.raised = TRUE]
    ELSE LoadFrom(NewEngine, data)

-----------------------------------------------------------------------------
(* KBEngine.scan *)

\* a loop over parts that finds nothing
FirstNonAssignNone(parts) == None

\* the first token of parts that holds no "=", None if every token holds one
RECURSIVE FirstNonAssign(_)
FirstNonAssign(parts) ==
    IF parts = <<>> THEN None
    ELSE IF ~TokHasEq(Head(parts)) THEN TokLower(Head(parts))
    ELSE FirstNonAssign(Tail(parts))

\* a scan that takes the first token as it stands
FirstTokenNoSudo(cmd) ==
    LET t0 == TokLower(cmd[1])
    IN  IF TokHasEq(t0) /\ FirstNonAssign(cmd) # None THEN FirstNonAssign(cmd) ELSE t0

\* first_token as scan computes it, for a non-empty command
FirstToken(cmd) ==
    LET t0 == TokLower(cmd[1])
        t1 == IF t0 = "sudo" /\ Len(cmd) > 1 THEN TokLower(cmd[2]) ELSE t0
    IN  IF TokHasEq(t1) /\ FirstNonAssign(cmd) # None THEN FirstNonAssign(cmd) ELSE t1

SelectMatching(rules, cmd) == SelectSeq(rules, LAMBDA r : Search(r.pattern, cmd))

\* scan(cmd): bucket matches first, then generic
Scan(buckets, generic, cmd) ==
    IF cmd = <<>> THEN <<>>
    ELSE SelectMatching(DictGet(buckets, FirstToken(cmd), <<>>) \o generic, cmd)

\* every loaded rule, in corpus order (the brute-force reference of the spec)
LoadedRules(data) == SelectSeq(data, LAMBDA r : r.valid)

BruteScan(data, cmd) == SelectMatching(LoadedRules(data), cmd)

-----------------------------------------------------------------------------
(* Ranking: Counter.most_common() / sorted(freq.items(), key=-count), then   *)
(* the selection loop of get_hints / get_rule_hints.                        *)

RULE_COOLDOWN == 120
WINDOW        == 50
MIN_COMMANDS  == 2
HINT_INTERVAL == 5
AI_THROTTLE   == 25
POLL_INTERVAL == 1
MaxHints      == 3

\* the last n elements of s: s[-n:] for n > 0
LastN(s, n) == IF Len(s) <= n THEN s ELSE SubSeq(s, Len(s) - n + 1, Len(s))

RECURSIVE Flatten(_)
Flatten(ss) == IF ss = <<>> THEN <<>> ELSE Head(ss) \o Flatten(Tail(ss))

\* freq[rid]: how often rid occurs in the sequence of matches
CountOf(rid, ms) == Cardinality({i \in 1..Len(ms) : ms[i].id = rid})

\* the keys of freq in insertion order: each id at its first occurrence
RECURSIVE FirstSeen(_, _)
FirstSeen(ms, seen) ==
    IF ms = <<>> THEN <<>>
    ELSE IF Head(ms).id \in seen THEN FirstSeen(Tail(ms), seen)
    ELSE <<Head(ms).id>> \o FirstSeen(Tail(ms), seen \cup {Head(ms).id})

\* insert rid into a sequence sorted by count, descending, after its equals
\* (Python's sort is stable, also with reverse=True)
RECURSIVE InsertByCount(_, _, _)
InsertByCount(sorted, rid, ms) ==
    IF sorted = <<>> THEN <<rid>>
    ELSE IF CountOf(Head(sorted), ms) >= CountOf(rid, ms)
         THEN <<Head(sorted)>> \o InsertByCount(Tail(sorted), rid, ms)
         ELSE <<rid>> \o sorted

RECURSIVE SortByCount(_, _, _)
SortByCount(keys, acc, ms) ==
    IF keys = <<>> THEN acc
    ELSE SortByCount(Tail(keys), InsertByCount(acc, Head(keys), ms), ms)

\* the keys of freq as they were inserted
MostCommonInserted(ms) == FirstSeen(ms, {})

\* freq.most_common(): ids by descending count, ties in insertion order
MostCommon(ms) == SortByCount(FirstSeen(ms, {}), <<>>, ms)

\* matched[rid][0]: the entry of the last match recorded under rid
LastMatch(rid, ms) ==
    LET I == {i \in 1..Len(ms) : ms[i].id = rid}
    IN  ms[CHOOSE i \in I : \A j \in I : j <= i]

\* `now - last_shown.get(rid, 0) < cooldown`
InCooldown(rid, last_shown, t_now, cooldown) ==
    t_now - DictGet(last_shown, rid, 0) < cooldown

\* the selection loop: walk the ranked ids, stop at 3 hints, skip what `skip` says
RECURSIVE SelectHints(_, _, _, _)
SelectHints(ranked, hints, ms, Skip) ==
    IF ranked = <<>> \/ Len(hints) >= MaxHints THEN hints
    ELSE IF Head(ranked) \in Skip THEN SelectHints(Tail(ranked), hints, ms, Skip)
    ELSE SelectHints(Tail(ranked),
                     Append(hints, [rid      |-> Head(ranked),
                                    count    |-> CountOf(Head(ranked), ms),
                                    severity |-> LastMatch(Head(ranked), ms).severity]),
                     ms, Skip)

\* the entries scan returns for the commands of the window, in loop order
KBMatches(buckets, generic, recent_cmds) ==
    Flatten([i \in 1..Len(recent_cmds) |-> Scan(buckets, generic, recent_cmds[i].cmd)])

\* a get_hints whose cooldown check has no exemption
GetHintsNoExemption(buckets, generic, recent_cmds, last_shown, t_now, cooldown) ==
    LET ms == KBMatches(buckets, generic, recent_cmds)
        Skip == {rid \in SeqToSet(MostCommon(ms)) :
                    InCooldown(rid, last_shown, t_now, cooldown)}
    IN  SelectHints(MostCommon(ms), <<>>, ms, Skip)

\* a get_hints without the cooldown check
GetHintsNoCooldown(buckets, generic, recent_cmds, last_shown, t_now, cooldown) ==
    LET ms == KBMatches(buckets, generic, recent_cmds)
        Skip == {}
    IN  SelectHints(MostCommon(ms), <<>>, ms, Skip)

\* KBEngine.get_hints(recent_cmds, last_shown, cooldown) called at time t_now
GetHints(buckets, generic, recent_cmds, last_shown, t_now, cooldown) ==
    LET ms == KBMatches(buckets, generic, recent_cmds)
        Skip == {rid \in SeqToSet(MostCommon(ms)) :
                    /\ InCooldown(rid, last_shown, t_now, cooldown)
                    /\ LastMatch(rid, ms).severity # "danger"}
    IN  SelectHints(MostCommon(ms), <<>>, ms, Skip)

-----------------------------------------------------------------------------
(* The built-in rules (UPGRADE_RULES) and the legacy path of get_rule_hints *)

\* The entries of UPGRADE_RULES that can match a command over the model's
\* tokens, in list order.  A legacy rule has no id and no severity field: its
\* key is the pattern text, and the "DANGER:" hints are its highest class.
LegacyRmRoot == Rule("^rm\\s+-rf\\s+[/~]\\s*$", "",
                     Pat(TRUE, <<(<<"rm">>), (<<"-rf">>), (<<"/", "~">>)>>, "end"),
                     "danger", TRUE)
LegacySudoRm == Rule("^sudo\\s+rm\\b", "",
                     Pat(TRUE, <<(<<"sudo">>), (<<"rm">>)>>, "any"), "warn", TRUE)
LegacyRmRf   == Rule("^rm -rf\\s+", "",
                     Pat(TRUE, <<(<<"rm">>), (<<"-rf">>)>>, "more"), "upgrade", TRUE)
LegacyRm     == Rule("^rm\\s+", "",
                     Pat(TRUE, <<(<<"rm">>)>>, "more"), "upgrade", TRUE)

UPGRADE_RULES == <<LegacyRmRoot, LegacySudoRm, LegacyRmRf, LegacyRm>>

\* re.match(pattern, cmd.strip()): a match at the start of the command
ReMatch(p, cmd) == MatchAt(p, cmd, 1)

\* the (pattern, command) matches the legacy loop records, in loop order
LegacyMatches(recent_cmds) ==
    Flatten([i \in 1..Len(recent_cmds) |->
                SelectSeq(UPGRADE_RULES,
                          LAMBDA r : ReMatch(r.pattern, recent_cmds[i].cmd))])

\* the legacy path of get_rule_hints (hint_daemon.py), called at time t_now
LegacyHints(recent_cmds, last_shown, t_now) ==
    LET ms == LegacyMatches(recent_cmds)
        Skip == {rid \in SeqToSet(MostCommon(ms)) :
                    InCooldown(rid, last_shown, t_now, RULE_COOLDOWN)}
    IN  SelectHints(MostCommon(ms), <<>>, ms, Skip)

\* an engine, whatever it holds
KBLoadedAlways(buckets, generic) == TRUE

\* _KB_ENGINE and _KB_ENGINE.loaded: self._count > 0
KBLoaded(buckets, generic) ==
    generic # <<>> \/ \E k \in DOMAIN buckets : buckets[k] # <<>>

\* get_rule_hints(recent_cmds, last_shown) called at time t_now
GetRuleHints(buckets, generic, recent_cmds, last_shown, t_now) ==
    IF KBLoaded(buckets, generic)
    THEN GetHints(buckets, generic, recent_cmds, last_shown, t_now, RULE_COOLDOWN)
    ELSE LegacyHints(recent_cmds, last_shown, t_now)

-----------------------------------------------------------------------------
(* The control loop of run(), projected on the state of the reflex tier and *)
(* of the ambient-hint task that re-ranks the rules when its call returns.  *)

MaxTicks == 2
MaxCmds  == 3

Home == "~"
Dirs == {"~"}

\* time.time() at start-up: far beyond every interval of the daemon
StartTime == 10 * RULE_COOLDOWN

TimeSteps == {HINT_INTERVAL, RULE_COOLDOWN}

ReflexCommands == {CmdRmRfRoot, <<"rm", "-rf", "git">>}

ReflexCorpora ==
    {<<>>, <<RuleRm, RuleRmRf, RuleRmRoot, RuleAnyRf>>, <<RuleRmRoot, RuleRm>>}

\* _hint_thread is None or not _hint_thread.is_alive()
NoThread == [pc |-> "none", r |-> <<>>, c |-> "", cc |-> 0]

\* current_hints.txt before the first write_hints
NoHints == [by |-> None, cwd |-> "", ts |-> 0, cc |-> 0, hints |-> <<>>,
            thinking |-> FALSE]

\* hint_strs[:3]
ShownHints == 3

\* write_hints(rule_hints, ..., cwd, cmd_count, thinking) at time ts
WriteHints(by, rule_hints, cwd, cmd_count, thinking, ts) ==
    [by |-> by, cwd |-> cwd, ts |-> ts, cc |-> cmd_count,
     hints |-> SubSeq(rule_hints, 1, IF Len(rule_hints) < ShownHints
                                     THEN Len(rule_hints) ELSE ShownHints),
     thinking |-> thinking]

\* the locals of run() before its loop
ReflexIdle ==
    /\ now = StartTime
    /\ ticks = 0
    /\ cmdLog = <<>>
    /\ last_hint_check = 0
    /\ last_cmd_count = 0
    /\ last_cwd = ""
    /\ last_ai_call = 0
    /\ rule_last_shown = EmptyDict
    /\ hintThread = NoThread
    /\ hintsFile = NoHints

ReflexInit ==
    /\ CopIdle
    /\ loopRead = LoopAtTop
    /\ hintsText = NoText
    /\ kbCorpus \in ReflexCorpora
    /\ kbBuckets = Load(kbCorpus).buckets
    /\ kbGeneric = Load(kbCorpus).generic
    /\ kbBad = Load(kbCorpus).bad
    /\ scanCmd = <<>>
    /\ scanToken = None
    /\ scanResult = <<>>
    /\ scanCalled = FALSE
    /\ ReflexIdle
    /\ CtxIdle
    /\ TaskIdle
    /\ IoIdle
    /\ StartIdle
    /\ TipIdle

\* the shell appends a command event to cmd_log.jsonl
NewCommand(c, dir) ==
    /\ Len(cmdLog) < MaxCmds
    /\ cmdLog' = Append(cmdLog, [cmd |-> c, cwd |-> dir])
    /\ UNCHANGED <<now, ticks, last_hint_check, last_cmd_count, last_cwd, last_ai_call,
                   rule_last_shown, hintThread, hintsFile>>
    /\ UNCHANGED outsideReflex

\* `for rid, _ in rule_hints: rule_last_shown[rid] = time.time()`
RECURSIVE MarkShown(_, _, _)
MarkShown(shown, hints, t) ==
    IF hints = <<>> THEN shown
    ELSE MarkShown(DictPut(shown, Head(hints).rid, t), Tail(hints), t)

\* the gate of the reflex tier in an iteration at time `now`
HintCheckDue == (now - last_hint_check) >= HINT_INTERVAL

CurrentCwd == IF cmdLog # <<>> THEN LastN(cmdLog, WINDOW)[Len(LastN(cmdLog, WINDOW))].cwd
              ELSE Home

ADVISOR_WINDOW == 100

\* a line of the command log that json.loads rejects
BadCmdLine == [cmd |-> <<"{">>, cwd |-> ""]

\* the try block that reads the command log ends without an exception:
\* json.loads accepts every line of all_lines[-WINDOW:] and of
\* all_lines[-ADVISOR_WINDOW:]
CmdLogParses ==
    /\ \A i \in 1..Len(LastN(cmdLog, WINDOW)) : LastN(cmdLog, WINDOW)[i] # BadCmdLine
    /\ \A i \in 1..Len(LastN(cmdLog, ADVISOR_WINDOW)) :
           LastN(cmdLog, ADVISOR_WINDOW)[i] # BadCmdLine

\* the iteration reaches the tiers: the check is due, the command log was
\* read (otherwise `except Exception: time.sleep(POLL_INTERVAL); continue`),
\* and there is something new
TierRuns ==
    /\ HintCheckDue
    /\ CmdLogParses
    /\ (Len(cmdLog) # last_cmd_count \/ CurrentCwd # last_cwd)
    /\ Len(cmdLog) >= MIN_COMMANDS

\* one iteration of `while True` in run(), up to and including its
\* time.sleep(POLL_INTERVAL); d is the time that has passed when it ends:
\* what it does to the locals of run() and to the hint file, ai_ready being
\* what line 959 evaluated
IterateWith(d, ai_ready) ==
    LET current_count == Len(cmdLog)
        recent        == LastN(cmdLog, WINDOW)
        cwd           == CurrentCwd
        rule_hints    == GetRuleHints(kbBuckets, kbGeneric, recent, rule_last_shown, now)
        start         == ai_ready /\ hintThread.pc = "none"
    IN
    /\ IF ~HintCheckDue
       THEN UNCHANGED <<last_hint_check, last_cmd_count, last_cwd, rule_last_shown,
                        hintThread, hintsFile>>
       ELSE /\ last_hint_check' = now
            /\ IF TierRuns
               THEN /\ rule_last_shown' = MarkShown(rule_last_shown, rule_hints, now)
                    /\ hintsFile' = WriteHints("loop", rule_hints, cwd, current_count,
                                               start, now)
                    /\ hintThread' =
                         IF start
                         THEN [pc |-> "call", r |-> recent, c |-> cwd,
                               cc |-> current_count]
                         ELSE hintThread
                    /\ last_cmd_count' = current_count
                    /\ last_cwd' = cwd
               ELSE UNCHANGED <<last_cmd_count, last_cwd, rule_last_shown,
                                hintThread, hintsFile>>
    /\ ticks < MaxTicks
    /\ ticks' = ticks + 1
    /\ now' = now + d
    /\ UNCHANGED <<cmdLog, last_ai_call>>

\* the iteration with nothing happening between its reads and its decisions
IterateLoop(d) == IterateWith(d, (now - last_ai_call) > AI_THROTTLE)

\* the iteration, seen from the reflex tier
Iterate(d) == IterateLoop(d) /\ UNCHANGED outsideReflex

\* _run_hint: call_ai_hint has returned, `last_ai_call = time.time()`
HintCallReturns ==
    /\ hintThread.pc = "call"
    /\ last_ai_call' = now
    /\ hintThread' = [hintThread EXCEPT !.pc = "render"]
    /\ UNCHANGED <<now, ticks, cmdLog, last_hint_check, last_cmd_count, last_cwd,
                   rule_last_shown, hintsFile>>
    /\ UNCHANGED outsideReflex

\* _run_hint: `write_hints(get_rule_hints(r, rule_last_shown), ...)`, task ends
HintRender ==
    /\ hintThread.pc = "render"
    /\ hintsFile' = WriteHints("task",
                               GetRuleHints(kbBuckets, kbGeneric, hintThread.r,
                                            rule_last_shown, now),
                               hintThread.c, hintThread.cc, FALSE, now)
    /\ hintThread' = NoThread
    /\ UNCHANGED <<now, ticks, cmdLog, last_hint_check, last_cmd_count, last_cwd,
                   last_ai_call, rule_last_shown>>
    /\ UNCHANGED outsideReflex

ReflexNext ==
    \/ \E c \in ReflexCommands, dir \in Dirs : NewCommand(c, dir)
    \/ \E d \in TimeSteps : Iterate(d)
    \/ HintCallReturns
    \/ HintRender

SpecReflex == ReflexInit /\ [][ReflexNext]_vars

-----------------------------------------------------------------------------
(* Claims about ranking and cooldown, checked under SpecReflex *)

\* this step is a loop iteration that runs the reflex tier
LoopRanks == TierRuns /\ ticks' = ticks + 1

\* this step is the ambient-hint task ranking the rules for its final render
TaskRanks == hintThread.pc = "render" /\ hintThread'.pc = "none"

\* the window the ranking of this step is computed from
RankedWindow == IF TaskRanks THEN hintThread.r ELSE LastN(cmdLog, WINDOW)

HintIds(hints) == {hints[i].rid : i \in 1..Len(hints)}

\* C6: a rule that is not of severity danger and whose recorded last-shown
\* time is less than RULE_COOLDOWN ago is in no output of get_rule_hints,
\* whether the control loop or the ambient-hint task asks, whatever commands
\* have arrived.
C6_CooldownSuppresses ==
    [][(LoopRanks \/ TaskRanks) =>
         \A i \in 1..Len(hintsFile'.hints) :
             hintsFile'.hints[i].severity # "danger" =>
                 ~InCooldown(hintsFile'.hints[i].rid, rule_last_shown, now,
                             RULE_COOLDOWN)]_vars

\* a rule was surfaced, a command it matches arrived within the cooldown, the
\* loop ranked again and left the rule out although there was room for it
C6_Witness ==
    \E r \in SeqToSet(kbCorpus) \cup SeqToSet(UPGRADE_RULES) :
        /\ r.severity # "danger"
        /\ r.id \in DOMAIN rule_last_shown
        /\ hintsFile.by = "loop"
        /\ rule_last_shown[r.id] < hintsFile.ts
        /\ hintsFile.ts - rule_last_shown[r.id] < RULE_COOLDOWN
        /\ hintsFile.cc = Len(cmdLog)
        /\ hintsFile.cc > 0
        /\ Search(r.pattern, cmdLog[Len(cmdLog)].cmd)
        /\ r.id \notin HintIds(hintsFile.hints)
        /\ Len(hintsFile.hints) < MaxHints

\* the danger rules of the loaded corpus that match a command of the window
DangerMatched(recent_cmds) ==
    {m.id : m \in {x \in SeqToSet(KBMatches(kbBuckets, kbGeneric, recent_cmds)) :
                      x.severity = "danger"}}

\* C7, as stated: a danger rule that matches a command of the window is in
\* the output of get_hints, whatever else matches.
C7_DangerAlwaysShown ==
    [][((LoopRanks \/ TaskRanks) /\ KBLoaded(kbBuckets, kbGeneric)) =>
         \A rid \in DangerMatched(RankedWindow) :
             rid \in HintIds(hintsFile'.hints)]_vars

\* C7, as it holds: a danger rule that matches a command of the window is never
\* left out for cooldown: it is in the output of get_hints unless the output
\* is full with 3 rules of equal or higher match frequency.
C7_DangerShownUnlessFull ==
    [][((LoopRanks \/ TaskRanks) /\ KBLoaded(kbBuckets, kbGeneric)) =>
         \A rid \in DangerMatched(RankedWindow) :
             \/ rid \in HintIds(hintsFile'.hints)
             \/ /\ Len(hintsFile'.hints) = MaxHints
                /\ \A i \in 1..MaxHints :
                       hintsFile'.hints[i].count >=
                           CountOf(rid, KBMatches(kbBuckets, kbGeneric, RankedWindow))]_vars

\* the ambient-hint task's render shows a danger rule of the corpus that the
\* loop had shown, and recorded, less than RULE_COOLDOWN before
C7_Witness ==
    /\ KBLoaded(kbBuckets, kbGeneric)
    /\ hintsFile.by = "task"
    /\ \E i \in 1..Len(hintsFile.hints) :
          /\ hintsFile.hints[i].severity = "danger"
          /\ hintsFile.hints[i].rid \in DOMAIN rule_last_shown
          /\ rule_last_shown[hintsFile.hints[i].rid] <= hintsFile.ts
          /\ hintsFile.ts - rule_last_shown[hintsFile.hints[i].rid] < RULE_COOLDOWN

\* C8, as stated, for the built-in rules: when `rm -rf /` is the newest
\* command and the reflex tier runs, a danger hint is among the hints, also
\* when the same command was hinted on the previous poll.
C8_RmRfRootAlwaysHinted ==
    [][(/\ LoopRanks
        /\ ~KBLoaded(kbBuckets, kbGeneric)
        /\ Len(cmdLog) # last_cmd_count
        /\ cmdLog[Len(cmdLog)].cmd = CmdRmRfRoot) =>
         \E i \in 1..Len(hintsFile'.hints) :
             hintsFile'.hints[i].severity = "danger"]_vars

-----------------------------------------------------------------------------
(* Specification of the rule dispatcher: a corpus is loaded, commands are    *)
(* scanned.                                                                 *)

KBInit ==
    /\ CopIdle
    /\ loopRead = LoopAtTop
    /\ hintsText = NoText
    /\ kbCorpus \in Corpora
    /\ kbBuckets = Load(kbCorpus).buckets
    /\ kbGeneric = Load(kbCorpus).generic
    /\ kbBad = Load(kbCorpus).bad
    /\ scanCmd = <<>>
    /\ scanToken = None
    /\ scanResult = <<>>
    /\ scanCalled = FALSE
    /\ ReflexIdle
    /\ CtxIdle
    /\ TaskIdle
    /\ IoIdle
    /\ StartIdle
    /\ TipIdle

ScanCommand(cmd) ==
    /\ scanCalled' = TRUE
    /\ scanCmd' = cmd
    /\ scanToken' = IF cmd = <<>> THEN None ELSE FirstToken(cmd)
    /\ scanResult' = Scan(kbBuckets, kbGeneric, cmd)
    /\ UNCHANGED <<kbBuckets, kbGeneric, kbBad, kbCorpus>>
    /\ UNCHANGED outsideKB

KBNext == \E cmd \in Commands : ScanCommand(cmd)

SpecKB == KBInit /\ [][KBNext]_vars


-----------------------------------------------------------------------------
(* Claims about the rule dispatcher, checked under SpecKB *)

\* C2, as stated: scan(C) returns exactly the set of rules a brute-force
\* scan of every loaded rule returns: bucketing neither drops a matching rule
\* nor adds a non-matching one.
C2_ScanEqualsBruteForce ==
    scanCalled => SeqToSet(scanResult) = SeqToSet(BruteScan(kbCorpus, scanCmd))

-----------------------------------------------------------------------------
(* The unified context log: ctx_append and ctx_read.                        *)
(*                                                                         *)
(* The file is the sequence of its lines.  A line is what json.dumps made  *)
(* of an entry (raw = "json"), or something json.loads raises on; for the  *)
(* first json.loads gives the entry back.  An entry carries its type, its  *)
(* payload and, once ctx_append has stamped it, the time of day of the     *)
(* call.                                                                   *)

CTX_MAX == 200
CTX_INJECT == 30

\* how many ctx_append calls are made in all
MaxAppends == 2

\* datetime.now().strftime("%H:%M:%S")
Strftime(t) == <<(t \div 3600) % 24, (t \div 60) % 60, t % 60>>

\* the argument of the k-th ctx_append call of thread t: the payload is what
\* tells one call's entry from another's
NewEntry(ty, t, k) == [type |-> ty, text |-> <<t, k>>]

\* entry["ts"] = ...
Stamp(entry, t_now) ==
    [type |-> entry.type, text |-> entry.text, ts |-> Strftime(t_now)]

\* json.dumps(entry, separators=(",", ":"))
Dumps(entry) == [raw |-> "json", val |-> entry]

\* whether json.loads(line) returns rather than raises
Parses(line) == line.raw = "json"

\* json.loads(line)
Loads(line) == line.val

\* the line an earlier run of the daemon left as the i-th
OldLine(i) == Dumps([type |-> "cmd", text |-> <<"old", i>>, ts |-> Strftime(0)])

\* a log of n lines left by an earlier run
OldLog(n) == [exists |-> TRUE, lines |-> [i \in 1..n |-> OldLine(i)]]

\* the logs the daemon may find at start: none, a short one, one that is one
\* line short of full, a full one
InitialLogs == {NoFile, OldLog(1), OldLog(CTX_MAX - 1), OldLog(CTX_MAX)}

\* the list left as it is
TrimNot(existing) == existing

\* existing[:CTX_MAX]: the newest lines are the ones cut
TrimNewest(existing) ==
    IF Len(existing) > CTX_MAX THEN SubSeq(existing, 1, CTX_MAX) ELSE existing

\* existing[-CTX_MAX:] when len(existing) > CTX_MAX
Trim(existing) ==
    IF Len(existing) > CTX_MAX THEN LastN(existing, CTX_MAX) ELSE existing

\* lines[:n]
PyHead(lines, n) == SubSeq(lines, 1, IF Len(lines) < n THEN Len(lines) ELSE n)

\* lines[-n:] of Python: the whole list for n = 0
PyTail(lines, n) == IF n = 0 THEN lines ELSE LastN(lines, n)

\* the list ctx_read builds from the chosen lines: unparsable ones are skipped
RECURSIVE ParseLines(_)
ParseLines(lines) ==
    IF lines = <<>> THEN <<>>
    ELSE IF Parses(Head(lines))
         THEN <<Loads(Head(lines))>> \o ParseLines(Tail(lines))
         ELSE ParseLines(Tail(lines))

\* ctx_read(n) on a given file
CtxReadOf(file, n) ==
    IF ~file.exists THEN <<>> ELSE ParseLines(PyTail(file.lines, n))

\* no mutual exclusion
LockAlwaysFree(t) == TRUE

\* with _ctx_lock: the lock can be taken
LockFree(t) == ctxLock = NoOwner

CtxCallsMade ==
    LET RECURSIVE Sum(_)
        Sum(S) == IF S = {} THEN 0
                  ELSE LET t == CHOOSE x \in S : TRUE
                       IN ctxThreads[t].calls + Sum(S \ {t})
    IN Sum(CtxThreads)

\* the kind of entry each thread appends
EntryTypes(t) ==
    CASE t = "loop" -> {"cmd"}
      [] t = "hint" -> {"ambient"}
      [] OTHER -> {"advisor"}

\* how far the clock moves between two calls
CtxTimeSteps == {0, 1}

SetThread(t, rec) == [ctxThreads EXCEPT ![t] = rec]

\* ctx_append(entry), up to the lock: the entry is stamped and serialized
CtxAppendCall(t, ty, d) ==
    /\ ctxThreads[t].pc = "idle"
    /\ CtxCallsMade < MaxAppends
    /\ now' = now + d
    /\ LET k == ctxThreads[t].calls + 1
           e == Stamp(NewEntry(ty, t, k), now')
       IN ctxThreads' = SetThread(t, [ctxThreads[t] EXCEPT
                            !.pc = "lock", !.calls = k, !.entry = e,
                            !.line = Dumps(e)])
    /\ UNCHANGED <<ctxFile, ctxTmp, ctxLock, ctxLastWriter>>
    /\ UNCHANGED outsideCtx

\* with _ctx_lock:
CtxAcquire(t) ==
    /\ ctxThreads[t].pc = "lock"
    /\ LockFree(t)
    /\ ctxLock' = t
    /\ ctxThreads' = SetThread(t, [ctxThreads[t] EXCEPT !.pc = "read"])
    /\ UNCHANGED <<now, ctxFile, ctxTmp, ctxLastWriter>>
    /\ UNCHANGED outsideCtx

\* existing = UNIFIED_CTX.read_text().splitlines() if UNIFIED_CTX.exists() else []
CtxReadExisting(t) ==
    /\ ctxThreads[t].pc = "read"
    /\ ctxThreads' = SetThread(t, [ctxThreads[t] EXCEPT
                         !.pc = "write",
                         !.existing = IF ctxFile.exists THEN ctxFile.lines
                                      ELSE <<>>])
    /\ UNCHANGED <<now, ctxFile, ctxTmp, ctxLock, ctxLastWriter>>
    /\ UNCHANGED outsideCtx

\* write in place
CtxWritePathSame == "log"

\* tmp = UNIFIED_CTX.with_suffix(".tmp"): the path ctx_append writes to
CtxWritePath == "tmp"

\* existing.append(line); trim; tmp.write_text(...) opens the file it writes,
\* which empties it
CtxOpenTmp(t) ==
    /\ ctxThreads[t].pc = "write"
    /\ LET extended == Append(ctxThreads[t].existing, ctxThreads[t].line)
       IN ctxThreads' = SetThread(t, [ctxThreads[t] EXCEPT
                            !.pc = "fill", !.existing = Trim(extended)])
    /\ IF CtxWritePath = "tmp"
       THEN ctxTmp' = [exists |-> TRUE, lines |-> <<>>] /\ UNCHANGED ctxFile
       ELSE ctxFile' = [exists |-> TRUE, lines |-> <<>>] /\ UNCHANGED ctxTmp
    /\ UNCHANGED <<now, ctxLock, ctxLastWriter>>
    /\ UNCHANGED outsideCtx

\* tmp.write_text("\n".join(existing) + "\n"): the text reaches the file
CtxWriteTmp(t) ==
    /\ ctxThreads[t].pc = "fill"
    /\ IF CtxWritePath = "tmp"
       THEN /\ ctxTmp' = [exists |-> TRUE, lines |-> ctxThreads[t].existing]
            /\ UNCHANGED ctxFile
       ELSE /\ ctxFile' = [exists |-> TRUE, lines |-> ctxThreads[t].existing]
            /\ UNCHANGED ctxTmp
    /\ ctxThreads' = SetThread(t, [ctxThreads[t] EXCEPT !.pc = "rename"])
    /\ UNCHANGED <<now, ctxLock, ctxLastWriter>>
    /\ UNCHANGED outsideCtx

\* tmp.rename(UNIFIED_CTX); a rename of a path that no longer exists raises,
\* the exception is printed and the call ends
CtxRename(t) ==
    /\ ctxThreads[t].pc = "rename"
    /\ IF CtxWritePath # "tmp"
       THEN ctxLastWriter' = t /\ UNCHANGED <<ctxFile, ctxTmp>>
       ELSE IF ctxTmp.exists
       THEN /\ ctxFile' = ctxTmp
            /\ ctxTmp' = NoFile
            /\ ctxLastWriter' = t
       ELSE UNCHANGED <<ctxFile, ctxTmp, ctxLastWriter>>
    /\ ctxThreads' = SetThread(t, [ctxThreads[t] EXCEPT !.pc = "release"])
    /\ UNCHANGED <<now, ctxLock>>
    /\ UNCHANGED outsideCtx

\* leaving the with block
CtxRelease(t) ==
    /\ ctxThreads[t].pc = "release"
    /\ ctxLock' = NoOwner
    /\ ctxThreads' = SetThread(t, [ctxThreads[t] EXCEPT
                         !.pc = "idle", !.existing = <<>>])
    /\ UNCHANGED <<now, ctxFile, ctxTmp, ctxLastWriter>>
    /\ UNCHANGED outsideCtx

\* the sizes ctx_read is called with: 1, and the default
ReadSizes == {1, CTX_INJECT}

\* ctx_read(n): takes no lock; the caller holds the returned list.  A read
\* changes nothing another read could see, so reads are taken one at a time.
CtxRead(t, n) ==
    /\ ctxThreads[t].pc = "idle"
    /\ \A u \in CtxThreads : ctxThreads[u].pc # "holds"
    /\ ctxThreads' = SetThread(t, [ctxThreads[t] EXCEPT
                         !.pc = "holds", !.out = CtxReadOf(ctxFile, n)])
    /\ UNCHANGED <<now, ctxFile, ctxTmp, ctxLock, ctxLastWriter>>
    /\ UNCHANGED outsideCtx

\* the caller of ctx_read drops the list
CtxReadDone(t) ==
    /\ ctxThreads[t].pc = "holds"
    /\ ctxThreads' = SetThread(t, [ctxThreads[t] EXCEPT
                         !.pc = "idle", !.out = <<>>])
    /\ UNCHANGED <<now, ctxFile, ctxTmp, ctxLock, ctxLastWriter>>
    /\ UNCHANGED outsideCtx

\* no corpus loaded, no scan made
KBIdle ==
    /\ kbCorpus = <<>>
    /\ kbBuckets = Load(<<>>).buckets
    /\ kbGeneric = Load(<<>>).generic
    /\ kbBad = Load(<<>>).bad
    /\ scanCmd = <<>>
    /\ scanToken = None
    /\ scanResult = <<>>
    /\ scanCalled = FALSE

CtxInit ==
    /\ CopIdle
    /\ loopRead = LoopAtTop
    /\ hintsText = NoText
    /\ KBIdle
    /\ ReflexIdle
    /\ ctxFile \in InitialLogs
    /\ ctxTmp = NoFile
    /\ ctxLock = NoOwner
    /\ ctxThreads = [t \in CtxThreads |-> CtxThreadIdle]
    /\ ctxLastWriter = NoOwner
    /\ TaskIdle
    /\ IoIdle
    /\ StartIdle
    /\ TipIdle

CtxNext ==
    \E t \in CtxThreads :
        \/ \E ty \in EntryTypes(t), d \in CtxTimeSteps : CtxAppendCall(t, ty, d)
        \/ CtxAcquire(t)
        \/ CtxReadExisting(t)
        \/ CtxOpenTmp(t)
        \/ CtxWriteTmp(t)
        \/ CtxRename(t)
        \/ CtxRelease(t)
        \/ \E n \in ReadSizes : CtxRead(t, n)
        \/ CtxReadDone(t)

SpecCtx == CtxInit /\ [][CtxNext]_vars

-----------------------------------------------------------------------------
(* Claims about the context log, checked under SpecCtx *)

\* C3: after any number of ctx_append calls, from any threads and in any
\* interleaving, the context log holds at most CTX_MAX entries.
C3_LogBounded == ctxFile.exists => Len(ctxFile.lines) <= CTX_MAX

\* an append has trimmed the log: it is full and its oldest line is gone
C3_Witness ==
    /\ ctxLastWriter # NoOwner
    /\ Len(ctxFile.lines) = CTX_MAX
    /\ ctxFile.lines[1] # OldLine(1)

\* how often the entry of the k-th call of thread t occurs in the log
Occurrences(t, k) ==
    Cardinality({i \in 1..Len(ctxFile.lines) :
                    ctxFile.lines[i].val.text = <<t, k>>})

\* whether the k-th ctx_append call of thread t has done its rename
Written(t, k) ==
    \/ k < ctxThreads[t].calls
    \/ k = ctxThreads[t].calls /\ ctxThreads[t].pc \in {"release", "idle", "holds"}

\* C4: when N <= CTX_MAX calls of ctx_append run concurrently, every entry
\* whose call has written is in the log exactly once, and no entry is in the
\* log before its call has written: no interleaving loses or duplicates one.
C4_EachEntryExactlyOnce ==
    CtxCallsMade <= CTX_MAX =>
        \A t \in CtxThreads : \A k \in 1..ctxThreads[t].calls :
            Occurrences(t, k) = IF Written(t, k) THEN 1 ELSE 0

\* two calls overlapped and both are done: the entry stamped earlier was
\* written later
C4_Witness ==
    \E t, u \in CtxThreads :
        /\ t # u
        /\ ctxThreads[t].pc = "idle" /\ ctxThreads[t].calls = 1
        /\ ctxThreads[u].pc = "idle" /\ ctxThreads[u].calls = 1
        /\ ctxThreads[t].entry.ts[3] < ctxThreads[u].entry.ts[3]
        /\ Len(ctxFile.lines) >= 2
        /\ ctxFile.lines[Len(ctxFile.lines)] = ctxThreads[t].line
        /\ ctxFile.lines[Len(ctxFile.lines) - 1] = ctxThreads[u].line

\* C5: ctx_append(e) followed by ctx_read(1) in the same thread, with no other
\* append written in between, returns the one-element list [e], e with the
\* timestamp ctx_append gave it.
C5_AppendThenReadOne ==
    [][\A t \in CtxThreads :
          (CtxRead(t, 1) /\ ctxLastWriter = t)
              => ctxThreads'[t].out = <<ctxThreads[t].entry>>]_vars

\* a thread holds the result of such a read, taken from a log of several lines
C5_Witness ==
    \E t \in CtxThreads :
        /\ ctxThreads[t].pc = "holds"
        /\ ctxLastWriter = t
        /\ Len(ctxFile.lines) > 1
        /\ ctxThreads[t].out = <<ctxThreads[t].entry>>
        /\ ctxThreads[t].entry.ts = Strftime(now)
        /\ now > StartTime

-----------------------------------------------------------------------------
(* The control loop of run(), projected on its background tasks: when the   *)
(* ambient-hint thread and the advisor thread are started and when they end. *)
(* What the reflex tier ranks and renders is left out here.                 *)

ADVISOR_EVERY == 1
ADVISOR_THROTTLE == 5

\* the threads of a tier that are alive
Alive(tasks) == DOMAIN tasks

\* a guard that lets a thread start whatever runs
ThreadFreeAlways(handle, tasks) == TRUE

\* `_hint_thread is None or not _hint_thread.is_alive()`
ThreadFree(handle, tasks) == handle = NoHandle \/ handle \notin Alive(tasks)

\* threading.Thread(target=...).start(): a new thread, alive at once
StartThread(tasks, id, cc) ==
    [x \in Alive(tasks) \cup {id} |->
        IF x = id THEN [pc |-> "call", cc |-> cc] ELSE tasks[x]]

\* the run() of a thread has returned
EndThread(tasks, id) == [x \in Alive(tasks) \ {id} |-> tasks[x]]

\* the log after a ctx_append(entry) that no other thread interleaves with
CtxAppended(file, entry, t_now) ==
    [exists |-> TRUE,
     lines |-> Trim(Append(IF file.exists THEN file.lines ELSE <<>>,
                           Dumps(Stamp(entry, t_now))))]

\* no throttle
AdvisorReadyAlways(t_now, last_call) == TRUE

\* advisor_ready = (now - last_advisor_call) > ADVISOR_THROTTLE
AdvisorReady(t_now, last_call) == (t_now - last_call) > ADVISOR_THROTTLE

\* one iteration of `while True` in run(), up to and including its
\* time.sleep(POLL_INTERVAL); d is the time that has passed when it ends
TaskIterate(d) ==
    LET current_count == Len(cmdLog)
        ai_ready      == (now - last_ai_call) > AI_THROTTLE
        advisor_ready == AdvisorReady(now, last_advisor_call)
        start_hint    == ai_ready /\ ThreadFree(hint_thread, hintTasks)
        start_advisor == /\ current_count - last_advisor_cmd >= ADVISOR_EVERY
                         /\ advisor_ready
                         /\ ThreadFree(advisor_thread, advisorTasks)
    IN
    /\ IF ~HintCheckDue
       THEN UNCHANGED <<last_hint_check, last_cmd_count, last_cwd, taskVars>>
       ELSE /\ last_hint_check' = now
            /\ IF TierRuns
               THEN /\ IF start_hint
                       THEN /\ hint_thread' = hint_thread + 1
                            /\ hintTasks' = StartThread(hintTasks, hint_thread + 1,
                                                        current_count)
                       ELSE UNCHANGED <<hint_thread, hintTasks>>
                    /\ IF start_advisor
                       THEN /\ advisor_thread' = advisor_thread + 1
                            /\ advisorTasks' = StartThread(advisorTasks,
                                                  advisor_thread + 1, current_count)
                            /\ last_advisor_call' = now
                            /\ last_advisor_cmd' = current_count
                       ELSE UNCHANGED <<advisor_thread, advisorTasks,
                                        last_advisor_call, last_advisor_cmd>>
                    /\ last_cmd_count' = current_count
                    /\ last_cwd' = CurrentCwd
                    /\ UNCHANGED pmVars
               ELSE UNCHANGED <<last_cmd_count, last_cwd, taskVars>>
    /\ ticks < MaxTicks
    /\ ticks' = ticks + 1
    /\ now' = now + d
    /\ UNCHANGED <<cmdLog, last_ai_call>>
    /\ UNCHANGED outsideTasks

\* _run_hint: call_ai_hint has returned, `last_ai_call = time.time()`
HintTaskReturns(id) ==
    /\ id \in Alive(hintTasks)
    /\ hintTasks[id].pc = "call"
    /\ last_ai_call' = now
    /\ hintTasks' = [hintTasks EXCEPT ![id].pc = "render"]
    /\ UNCHANGED <<now, ticks, cmdLog, last_hint_check, last_cmd_count, last_cwd,
                   hint_thread, advisorTasks, advisor_thread, last_advisor_call,
                   last_advisor_cmd, pmVars>>
    /\ UNCHANGED outsideTasks

\* _run_hint: the final write_hints is done, the thread ends
HintTaskEnds(id) ==
    /\ id \in Alive(hintTasks)
    /\ hintTasks[id].pc = "render"
    /\ hintTasks' = EndThread(hintTasks, id)
    /\ UNCHANGED <<now, ticks, cmdLog, last_hint_check, last_cmd_count, last_cwd,
                   last_ai_call, hint_thread, advisorTasks, advisor_thread,
                   last_advisor_call, last_advisor_cmd, pmVars>>
    /\ UNCHANGED outsideTasks

\* what _call_backend returns to run_advisor: None after a transport error,
\* an empty text, or a text
AdvisorResults == {None, "", "tidying the repository"}

\* no test of the result
AdvisorAppendsAlways(result) == TRUE

\* run_advisor goes on to ctx_append: not `if not result: return`
AdvisorAppends(result) == result # None /\ result # ""

\* run_advisor: `result = _call_backend(HINT_BACKEND, prompt, model=HINT_MODEL)`
\* has returned; the prompt went to the transport of HINT_BACKEND
AdvisorCallReturns(id, result) ==
    /\ id \in Alive(advisorTasks)
    /\ advisorTasks[id].pc = "call"
    /\ advisorTasks' = [advisorTasks EXCEPT
                           ![id] = [pc |-> "returned", cc |-> @.cc,
                                    result |-> result]]
    /\ transportCalls' = transportCalls + 1
    /\ UNCHANGED <<now, ticks, cmdLog, last_hint_check, last_cmd_count, last_cwd,
                   last_ai_call, hintTasks, hint_thread, advisor_thread,
                   last_advisor_call, last_advisor_cmd, pmVars>>
    /\ UNCHANGED <<kbVars, ctxVars, ioVars, startVars, rule_last_shown, hintThread,
                   hintsFile, TIP_BACKEND, availableBackends, tipQuery, tipResult,
                   postMortemOut, tipQueries>>

\* _run_advisor: the rest of run_advisor, the thread ends.  `if not result:
\* return`; otherwise the entry built from the text is appended to the log.
AdvisorTaskEnds(id) ==
    /\ id \in Alive(advisorTasks)
    /\ advisorTasks[id].pc = "returned"
    /\ advisorTasks' = EndThread(advisorTasks, id)
    /\ IF AdvisorAppends(advisorTasks[id].result)
       THEN /\ ctxFile' = CtxAppended(ctxFile,
                               [type |-> "advisor",
                                text |-> advisorTasks[id].result], now)
            /\ ctxLastWriter' = "advisor"
       ELSE UNCHANGED <<ctxFile, ctxLastWriter>>
    /\ UNCHANGED <<now, ticks, cmdLog, last_hint_check, last_cmd_count, last_cwd,
                   last_ai_call, hintTasks, hint_thread, advisor_thread,
                   last_advisor_call, last_advisor_cmd, pmVars>>
    /\ UNCHANGED <<kbVars, ctxTmp, ctxLock, ctxThreads, tipVars, ioVars, startVars,
                   rule_last_shown, hintThread, hintsFile>>

\* the shell hook leaves a line in the command log that is not JSON
BadLineLogged ==
    /\ Len(cmdLog) < MaxCmds
    /\ cmdLog' = Append(cmdLog, BadCmdLine)
    /\ UNCHANGED <<now, ticks, last_hint_check, last_cmd_count, last_cwd, last_ai_call,
                   rule_last_shown, hintThread, hintsFile>>
    /\ UNCHANGED outsideReflex

TaskInit ==
    /\ CopIdle
    /\ loopRead = LoopAtTop
    /\ hintsText = NoText
    /\ KBIdle
    /\ ReflexIdle
    /\ CtxIdle
    /\ TaskIdle
    /\ IoIdle
    /\ StartIdle
    /\ TipIdle

TaskNext ==
    \/ \E c \in ReflexCommands, dir \in Dirs : NewCommand(c, dir)
    \/ BadLineLogged
    \/ \E d \in TimeSteps : TaskIterate(d)
    \/ \E id \in Alive(hintTasks) : HintTaskReturns(id)
    \/ \E id \in Alive(hintTasks) : HintTaskEnds(id)
    \/ \E id \in Alive(advisorTasks), result \in AdvisorResults :
          AdvisorCallReturns(id, result)
    \/ \E id \in Alive(advisorTasks) : AdvisorTaskEnds(id)

SpecTasks == TaskInit /\ [][TaskNext]_vars

\* C1: in every reachable state at most one advisor thread and at most one
\* ambient-hint thread is alive, however many iterations of the control loop,
\* with new commands arriving, pass while an earlier thread is in flight.
C1_SingleFlight ==
    /\ Cardinality(Alive(hintTasks)) <= 1
    /\ Cardinality(Alive(advisorTasks)) <= 1

\* the threads started for the first two commands are both still in their
\* calls after a later iteration has run the tiers for a third command, with
\* the throttles of both tiers elapsed at that iteration
C1_Witness ==
    /\ Alive(hintTasks) = {1} /\ hintTasks[1].pc = "call" /\ hintTasks[1].cc = 2
    /\ Alive(advisorTasks) = {1} /\ advisorTasks[1].cc = 2
    /\ last_cmd_count = 3
    /\ last_hint_check - last_ai_call > AI_THROTTLE
    /\ last_hint_check - last_advisor_call > ADVISOR_THROTTLE

-----------------------------------------------------------------------------
(* The expert tier: handle_tip_query, called by the control loop at the top *)
(* of every iteration.  A file of this tier is its text, held as the one    *)
(* element of `lines`; a result text is a pair of what the message says and *)
(* the value it is formatted with.                                          *)

\* how many queries the user writes
MaxQueries == 2

Backends == {"copilot", "claude", "ollama", "openai"}

\* what the user may write to tip_query.txt
Queries == {"  ", "undo last commit", "Post-Mortem"}

\* str.strip()
QueryStrip(q) == IF q = "  " THEN "" ELSE q

\* str.lower()
QueryLower(q) == IF q = "Post-Mortem" THEN "post-mortem" ELSE q

\* the queries answered from post_mortem.txt
Subcommands == {"postmortem", "post-mortem", "commit message"}

\* what a backend transport may return: text, or nothing
Responses == {"git reset --soft HEAD~1", ""}

FileOf(text) == [exists |-> TRUE, lines |-> <<text>>]

\* f"[{TIP_BACKEND} not available — check config.json]"
UnavailableText(backend) == <<"not available", backend>>

\* a probe that finds every backend
BackendAvailableAlways(backend, available) == TRUE

\* `backend in _AVAILABLE_BACKENDS`
BackendAvailable(backend, available) == backend \in available

\* call_ai_tip(prompt), the transport answering resp
CallAiTip(resp) ==
    IF ~BackendAvailable(TIP_BACKEND, availableBackends) THEN "" ELSE resp

\* the user writes a query
UserAsks(q) ==
    /\ tipQueries < MaxQueries
    /\ tipQueries' = tipQueries + 1
    /\ tipQuery' = FileOf(q)
    /\ UNCHANGED <<TIP_BACKEND, availableBackends, tipResult, postMortemOut,
                   transportCalls, ctxFile, ctxLastWriter>>
    /\ UNCHANGED outsideTip

\* handle_tip_query() finding a query file; resp is what the transport of the
\* configured backend returns if it is called: what the call does to the
\* files of the expert tier and to the context log
TipQueryHandled(resp) ==
    LET query  == QueryStrip(tipQuery.lines[1])
        asked  == CtxAppended(ctxFile, [type |-> "tip_q", text |-> query], now)
        called == BackendAvailable(TIP_BACKEND, availableBackends)
        result == IF CallAiTip(resp) = ""
                  THEN <<"returned empty", TIP_BACKEND>>
                  ELSE <<"answer", CallAiTip(resp)>>
    IN
    /\ tipQuery.exists
    /\ tipQuery' = NoFile
    /\ IF query = ""
       THEN UNCHANGED <<tipResult, transportCalls, ctxFile, ctxLastWriter>>
       ELSE IF QueryLower(query) \in Subcommands
       THEN /\ tipResult' =
                 IF postMortemOut.exists
                 THEN FileOf(<<"Last drafted commit message", postMortemOut.lines[1]>>)
                 ELSE FileOf(<<"No post-mortem yet", "">>)
            /\ UNCHANGED <<transportCalls, ctxFile, ctxLastWriter>>
       ELSE IF ~BackendAvailable(TIP_BACKEND, availableBackends)
       THEN /\ ctxFile' = asked
            /\ ctxLastWriter' = "loop"
            /\ tipResult' = FileOf(UnavailableText(TIP_BACKEND))
            /\ UNCHANGED transportCalls
       ELSE /\ transportCalls' = transportCalls + (IF called THEN 1 ELSE 0)
            /\ ctxFile' = CtxAppended(asked, [type |-> "tip_a", text |-> result], now)
            /\ ctxLastWriter' = "loop"
            /\ tipResult' = FileOf(result)
    /\ UNCHANGED <<TIP_BACKEND, availableBackends, postMortemOut, tipQueries>>

\* the call, seen from the expert tier
HandleTipQuery(resp) == TipQueryHandled(resp) /\ UNCHANGED outsideTip

TipInit ==
    /\ CopIdle
    /\ loopRead = LoopAtTop
    /\ hintsText = NoText
    /\ KBIdle
    /\ ReflexIdle
    /\ CtxIdle
    /\ TaskIdle
    /\ IoIdle
    /\ StartIdle
    /\ TIP_BACKEND \in Backends
    /\ availableBackends \in SUBSET Backends
    /\ tipQuery = NoFile
    /\ tipResult = NoFile
    /\ postMortemOut \in {NoFile, FileOf("fix: trim the log")}
    /\ transportCalls = 0
    /\ tipQueries = 0

TipNext ==
    \/ \E q \in Queries : UserAsks(q)
    \/ \E resp \in Responses : HandleTipQuery(resp)

SpecTip == TipInit /\ [][TipNext]_vars

\* this step is handle_tip_query consuming a query that is not empty
TipServed ==
    /\ tipQuery.exists
    /\ QueryStrip(tipQuery.lines[1]) # ""
    /\ ~tipQuery'.exists

\* C10, as stated: with the configured backend not probed available, every
\* non-empty query consumed by handle_tip_query has the `not available`
\* message written to the result in that call, and no transport is called.
C10_UnavailableWritten ==
    [][(TipServed /\ TIP_BACKEND \notin availableBackends)
          => /\ tipResult' = FileOf(UnavailableText(TIP_BACKEND))
             /\ transportCalls' = transportCalls]_vars

\* C10, as it holds: with the configured backend not probed available, every
\* non-empty query consumed by handle_tip_query gets a result written in that
\* call and no transport is called; the result is the `not available`
\* message unless the query is the post-mortem subcommand, which is answered
\* from post_mortem.txt.
C10_UnavailableUnlessSubcommand ==
    [][(TipServed /\ TIP_BACKEND \notin availableBackends)
          => /\ transportCalls' = transportCalls
             /\ tipResult'.exists
             /\ QueryLower(QueryStrip(tipQuery.lines[1])) \notin Subcommands
                   => tipResult' = FileOf(UnavailableText(TIP_BACKEND))
             /\ QueryLower(QueryStrip(tipQuery.lines[1])) \in Subcommands
                   => tipResult'.lines[1][1] \in
                         {"Last drafted commit message", "No post-mortem yet"}]_vars

\* a query was consumed and answered `not available` while another backend
\* than the configured one is available; nothing was sent to a transport
C10_Witness ==
    /\ TIP_BACKEND \notin availableBackends
    /\ availableBackends # {}
    /\ tipQueries > 0
    /\ ~tipQuery.exists
    /\ tipResult = FileOf(UnavailableText(TIP_BACKEND))
    /\ transportCalls = 0
    /\ ctxFile.exists
    /\ Loads(ctxFile.lines[Len(ctxFile.lines)]).type = "tip_q"

-----------------------------------------------------------------------------
(* The writes of the output files, step by step.  Path.write_text opens the  *)
(* file for writing, which empties it, and then writes the text: between    *)
(* the two steps the file exists and is empty.  A write to a temporary file *)
(* followed by rename replaces the target in one step.  Which thread writes *)
(* the hint file when is left open here: both the control loop and the      *)
(* ambient-hint task may call write_hints at any time.                      *)

outsideIo == <<kbVars, taskVars, startVars, copVars, loopRead, hintsText, ctxTmp, ctxLock, ctxThreads, now, ticks, cmdLog,
               last_hint_check, last_cmd_count, last_cwd, last_ai_call,
               rule_last_shown, hintThread, TIP_BACKEND, availableBackends,
               postMortemOut, tipQueries>>

\* a file just opened by write_text
EmptyFile == [exists |-> TRUE, lines |-> <<>>]

\* current_hints.txt just opened by write_text
EmptyHintsFile == [NoHints EXCEPT !.by = "empty"]

SetWriter(w, pc, text) == [writers EXCEPT ![w] = [pc |-> pc, text |-> text]]

\* write_hints(...): HINTS_OUT.write_text(...) opens the file
WriteHintsOpen(w, thinking) ==
    /\ writers[w].pc = "idle"
    /\ hintsFile' = EmptyHintsFile
    /\ writers' = SetWriter(w, "hints",
                            WriteHints(w, <<>>, Home, Len(cmdLog), thinking, now))
    /\ UNCHANGED <<tipQuery, tipResult, tipTmp, transportCalls, ctxFile,
                   ctxLastWriter>>
    /\ UNCHANGED outsideIo

\* the text of a write_text reaches the file
WriteTextDone(w) ==
    /\ writers[w].pc \in {"hints", "tip"}
    /\ IF writers[w].pc = "hints"
       THEN hintsFile' = writers[w].text /\ UNCHANGED tipResult
       ELSE tipResult' = FileOf(writers[w].text) /\ UNCHANGED hintsFile
    /\ writers' = SetWriter(w, "idle", <<>>)
    /\ UNCHANGED <<tipQuery, tipTmp, transportCalls, ctxFile, ctxLastWriter>>
    /\ UNCHANGED outsideIo

\* handle_tip_query() up to the first step of its write of the result:
\* tmp.write_text(result), or the opening of TIP_RESULT by write_text
TipBegin(resp) ==
    LET query  == QueryStrip(tipQuery.lines[1])
        asked  == CtxAppended(ctxFile, [type |-> "tip_q", text |-> query], now)
        result == IF CallAiTip(resp) = ""
                  THEN <<"returned empty", TIP_BACKEND>>
                  ELSE <<"answer", CallAiTip(resp)>>
    IN
    /\ writers["loop"].pc = "idle"
    /\ tipQuery.exists
    /\ tipQuery' = NoFile
    /\ IF query = ""
       THEN UNCHANGED <<tipResult, tipTmp, writers, transportCalls, ctxFile,
                        ctxLastWriter>>
       ELSE IF QueryLower(query) \in Subcommands
       THEN /\ tipTmp' =
                 IF postMortemOut.exists
                 THEN FileOf(<<"Last drafted commit message", postMortemOut.lines[1]>>)
                 ELSE FileOf(<<"No post-mortem yet", "">>)
            /\ writers' = SetWriter("loop", "rename", <<>>)
            /\ UNCHANGED <<tipResult, transportCalls, ctxFile, ctxLastWriter>>
       ELSE IF ~BackendAvailable(TIP_BACKEND, availableBackends)
       THEN /\ ctxFile' = asked
            /\ ctxLastWriter' = "loop"
            /\ tipResult' = EmptyFile
            /\ writers' = SetWriter("loop", "tip", UnavailableText(TIP_BACKEND))
            /\ UNCHANGED <<tipTmp, transportCalls>>
       ELSE /\ transportCalls' = transportCalls + 1
            /\ ctxFile' = CtxAppended(asked, [type |-> "tip_a", text |-> result], now)
            /\ ctxLastWriter' = "loop"
            /\ tipTmp' = FileOf(result)
            /\ writers' = SetWriter("loop", "rename", <<>>)
            /\ UNCHANGED tipResult
    /\ UNCHANGED hintsFile
    /\ UNCHANGED outsideIo

\* tmp.rename(TIP_RESULT)
TipRename ==
    /\ writers["loop"].pc = "rename"
    /\ tipResult' = tipTmp
    /\ tipTmp' = NoFile
    /\ writers' = SetWriter("loop", "idle", <<>>)
    /\ UNCHANGED <<tipQuery, hintsFile, transportCalls, ctxFile, ctxLastWriter>>
    /\ UNCHANGED outsideIo

IoInit ==
    /\ CopIdle
    /\ loopRead = LoopAtTop
    /\ hintsText = NoText
    /\ KBIdle
    /\ ReflexIdle
    /\ CtxIdle
    /\ TaskIdle
    /\ IoIdle
    /\ StartIdle
    /\ TIP_BACKEND = "copilot"
    /\ availableBackends \in {{}, {"copilot"}}
    /\ tipQuery = NoFile
    /\ tipResult = NoFile
    /\ postMortemOut \in {NoFile, FileOf("fix: trim the log")}
    /\ transportCalls = 0
    /\ tipQueries = 0

IoNext ==
    \/ \E q \in Queries : UserAsks(q)
    \/ \E resp \in Responses : TipBegin(resp)
    \/ TipRename
    \/ WriteHintsOpen("loop", TRUE) \/ WriteHintsOpen("loop", FALSE)
    \/ WriteHintsOpen("hint", FALSE)
    \/ \E w \in Writers : WriteTextDone(w)

SpecIO == IoInit /\ [][IoNext]_vars

\* C11, as stated: whatever handle_tip_query writes to the result target, a
\* reader of the target sees the previous complete text or the new complete
\* text, never a file that is being written.
C11_ResultNeverPartial == tipResult.exists => tipResult.lines # <<>>

\* C14, as stated: the hint output file is replaced in one step, so a reader
\* and the two writers never see or leave a hint file that is being written.
C14_HintsNeverPartial == hintsFile.by # "empty"

\* C12, as stated: no step of the control loop makes a backend call; serving
\* an on-demand query, which the loop does itself, leaves the number of
\* transport calls as it was.
C12_LoopMakesNoBackendCall == [][TipServed => transportCalls' = transportCalls]_vars

\* C13: a ctx_read running beside ctx_append calls finds a complete log. The
\* file ctx_read reads changes only by the rename that ends an append, and
\* that step takes it from the log before the append to the log after it:
\* the lines before, the appended line, trimmed to CTX_MAX.
C13_ReaderSeesCompleteLog ==
    [][\/ ctxFile' = ctxFile
       \/ \E t \in CtxThreads :
            /\ ctxThreads[t].pc = "rename"
            /\ ctxFile' = [exists |-> TRUE,
                           lines |-> Trim(Append(IF ctxFile.exists
                                                 THEN ctxFile.lines ELSE <<>>,
                                                 ctxThreads[t].line))]]_vars

\* a reader holds what it read while another thread's append has its
\* temporary file open and still empty
C13_Witness ==
    \E t, u \in CtxThreads :
        /\ t # u
        /\ ctxThreads[t].pc = "fill"
        /\ ctxTmp = [exists |-> TRUE, lines |-> <<>>]
        /\ ctxThreads[u].pc = "holds"
        /\ ctxThreads[u].out # <<>>
        /\ Len(ctxThreads[u].out) = Len(PyTail(ctxFile.lines, CTX_INJECT))

\* the rules of a corpus that are well formed: they have a pattern, and the
\* pattern compiles
WellFormed(data) == SelectSeq(data, LAMBDA r : r.pattern # NoPattern /\ r.valid)

\* C15, as stated: load never aborts for a bad rule: every well-formed rule of
\* the corpus, before and after a malformed one, is loaded, and every
\* malformed rule (invalid pattern, or no pattern) is skipped and counted.
C15_BadRulesSkipped ==
    /\ \A i \in 1..Len(WellFormed(kbCorpus)) :
          \/ InSeq(WellFormed(kbCorpus)[i], kbGeneric)
          \/ \E k \in DOMAIN kbBuckets : InSeq(WellFormed(kbCorpus)[i], kbBuckets[k])
    /\ kbBad = Len(kbCorpus) - Len(WellFormed(kbCorpus))

\* C16, as stated, for the command log: a line of the log that does not
\* parse is skipped and the other lines of the read are processed in the
\* same poll cycle: an iteration whose check is due, and that finds commands
\* it has not handled and at least MIN_COMMANDS lines, handles them.
C16_BadLineSkipped ==
    [][(/\ ticks' = ticks + 1
        /\ HintCheckDue
        /\ Len(cmdLog) # last_cmd_count
        /\ Len(cmdLog) >= MIN_COMMANDS
        /\ \E i \in 1..Len(cmdLog) : cmdLog[i] # BadCmdLine)
       => last_cmd_count' = Len(cmdLog)]_vars

\* C19: whenever the control loop starts an Advisor task, the command log
\* holds at least one command more than at the last advisor start, more than
\* ADVISOR_THROTTLE seconds have passed since the last advisor start, and no
\* Advisor task is running.
C19_AdvisorStartGuarded ==
    [][advisor_thread' # advisor_thread =>
          /\ Len(cmdLog) - last_advisor_cmd >= 1
          /\ now - last_advisor_call > ADVISOR_THROTTLE
          /\ Alive(advisorTasks) = {}
          /\ Alive(advisorTasks') = {advisor_thread'}]_vars

\* a second Advisor task runs: it was started after the first had ended
C19_Witness ==
    /\ advisor_thread = 2
    /\ Alive(advisorTasks) = {2}
    /\ last_advisor_call > StartTime
    /\ last_advisor_cmd = Len(cmdLog)

\* C20, as stated: after an Advisor call that failed or returned nothing the
\* advisor is started again on the next tick at which the minimum interval
\* has elapsed and no advisor runs, with no further new command.  Here for
\* the first run of a session: it has ended and left no entry in the log.
C20_FailedAdvisorRetried ==
    [][(/\ ticks' = ticks + 1
        /\ HintCheckDue
        /\ CmdLogParses
        /\ advisor_thread = 1
        /\ Alive(advisorTasks) = {}
        /\ ~ctxFile.exists
        /\ now - last_advisor_call > ADVISOR_THROTTLE)
       => advisor_thread' = advisor_thread + 1]_vars

-----------------------------------------------------------------------------
(* Startup.  The module body creates the KB engine inside try/except, then  *)
(* run() calls _load_config() before its loop; an exception that leaves     *)
(* _load_config leaves run() and ends the process.                          *)

KbFiles == {"absent", "unreadable", "ok"}

\* the corpora kb.json holds at startup
StartCorpora == {<<>>, <<RuleBad>>, <<RuleNoPattern, RuleRm>>, <<RuleRmRoot, RuleRm>>}

\* _KB_ENGINE after the try block: __init__ calls load only if the file
\* exists; load returns early if the file cannot be read or parsed; an
\* exception of KBEngine() leaves no engine
EngineOf(file, data) == IF file = "ok" THEN Load(data) ELSE NewEngine

\* the documents config.json may hold: none, one that is not JSON, a JSON
\* list, and JSON objects with or without the keys hint_backend, tip_backend
ConfigDocs ==
    {NoConfig,
     [kind |-> "malformed", hint_backend |-> None, tip_backend |-> None],
     [kind |-> "list", hint_backend |-> None, tip_backend |-> None]}
    \cup {[kind |-> "dict", hint_backend |-> h, tip_backend |-> t] :
             h \in {None, "claude"}, t \in {None, "ollama"}}

\* the names the global statements of _load_config declare
ConfigGlobals ==
    {"HINT_BACKEND", "HINT_MODEL", "TIP_BACKEND", "TIP_MODEL", "OLLAMA_URL",
     "CLAUDE_MODEL", "COPILOT_MODEL", "OPENAI_URL", "OPENAI_MODEL"}

\* the names _load_config assigns, in the order of its statements; the
\* right-hand side of each reads the name it assigns
ConfigAssigned ==
    <<"HINT_BACKEND", "HINT_MODEL", "HINT_MODEL_CHAIN", "TIP_BACKEND", "TIP_MODEL",
      "OLLAMA_URL", "CLAUDE_MODEL", "COPILOT_MODEL", "OPENAI_URL", "OPENAI_MODEL">>

\* the statement `X = cfg.get(key, X)` of name X is reached and executes: a
\* name that is assigned in the function and not declared global is local,
\* and reading it before its assignment raises UnboundLocalError
Assigns(name) ==
    \E i \in 1..Len(ConfigAssigned) :
        /\ ConfigAssigned[i] = name
        /\ \A j \in 1..i : ConfigAssigned[j] \in ConfigGlobals

\* cfg.get(key, default) of a JSON object
CfgGet(value, default) == IF value = None THEN default ELSE value

\* `_KB_ENGINE = _KBEngine()` in the module body
CreateEngine ==
    /\ daemon = "import"
    /\ daemon' = "config"
    /\ kbBuckets' = EngineOf(kbFile, kbCorpus).buckets
    /\ kbGeneric' = EngineOf(kbFile, kbCorpus).generic
    /\ kbBad' = EngineOf(kbFile, kbCorpus).bad
    /\ UNCHANGED <<kbCorpus, scanCmd, scanToken, scanResult, scanCalled, kbFile,
                   configFile, HINT_BACKEND>>
    /\ UNCHANGED <<reflexVars, ctxVars, taskVars, tipVars, ioVars>>

\* _load_config(), called by run()
LoadConfig ==
    /\ daemon = "config"
    /\ IF configFile.kind \in {"absent", "malformed"}
       THEN /\ daemon' = "running"
            /\ UNCHANGED <<HINT_BACKEND, TIP_BACKEND>>
       ELSE IF configFile.kind = "list"
       THEN /\ daemon' = "crashed"
            /\ UNCHANGED <<HINT_BACKEND, TIP_BACKEND>>
       ELSE /\ HINT_BACKEND' = IF Assigns("HINT_BACKEND")
                               THEN CfgGet(configFile.hint_backend, HINT_BACKEND)
                               ELSE HINT_BACKEND
            /\ TIP_BACKEND' = IF Assigns("TIP_BACKEND")
                              THEN CfgGet(configFile.tip_backend, TIP_BACKEND)
                              ELSE TIP_BACKEND
            /\ daemon' = IF \A i \in 1..Len(ConfigAssigned) :
                                Assigns(ConfigAssigned[i])
                         THEN "running" ELSE "crashed"
    /\ UNCHANGED <<kbFile, configFile, availableBackends, tipQuery, tipResult,
                   postMortemOut, transportCalls, tipQueries>>
    /\ UNCHANGED <<kbVars, reflexVars, ctxVars, taskVars, ioVars>>

\* the time between two hint checks, and the command typed, at startup
StartSteps == {HINT_INTERVAL}
StartCommands == {CmdRmRfRoot}

StartInit ==
    /\ CopIdle
    /\ loopRead = LoopAtTop
    /\ hintsText = NoText
    /\ kbFile \in KbFiles
    /\ kbCorpus \in (IF kbFile = "ok" THEN StartCorpora ELSE {<<>>})
    /\ kbBuckets = NewEngine.buckets
    /\ kbGeneric = NewEngine.generic
    /\ kbBad = NewEngine.bad
    /\ scanCmd = <<>>
    /\ scanToken = None
    /\ scanResult = <<>>
    /\ scanCalled = FALSE
    /\ configFile \in ConfigDocs
    /\ daemon = "import"
    /\ HINT_BACKEND = "copilot"
    /\ ReflexIdle
    /\ CtxIdle
    /\ TaskIdle
    /\ IoIdle
    /\ TipIdle

StartNext ==
    \/ CreateEngine
    \/ LoadConfig
    \/ \E c \in StartCommands, dir \in Dirs : NewCommand(c, dir)
    \/ \E d \in StartSteps : daemon = "running" /\ Iterate(d)
    \/ HintCallReturns
    \/ HintRender

SpecStartup == StartInit /\ [][StartNext]_vars

\* C17, as stated: loading the configuration never stops the daemon.  With a
\* JSON object in config.json startup continues and each setting has the
\* configured value if its key is present and the default otherwise; with a
\* document that is not JSON, or none, startup continues with the defaults.
C17_ConfigNeverStops ==
    /\ configFile.kind \in {"absent", "malformed", "dict"} => daemon # "crashed"
    /\ daemon = "running" =>
          /\ HINT_BACKEND = CfgGet(configFile.hint_backend, "copilot")
          /\ TIP_BACKEND = CfgGet(configFile.tip_backend, "copilot")

\* kb.json is absent or unreadable, or no rule of it was loaded
NoCorpus ==
    \/ kbFile # "ok"
    \/ Load(kbCorpus).buckets = EmptyDict /\ Load(kbCorpus).generic = <<>>

\* C18: with no rule corpus (no kb.json, an unreadable one, or one that yields
\* no rule) the creation of the engine does not stop startup, and every
\* ranking of the reflex tier, by the control loop or by the ambient-hint
\* task, is the ranking of the built-in rules over the window of commands.
C18_NoCorpusUsesBuiltIn ==
    [][NoCorpus =>
         /\ (daemon = "import" /\ daemon' # daemon) => daemon' = "config"
         /\ (daemon = "running" /\ (LoopRanks \/ TaskRanks)) =>
               hintsFile'.hints =
                   WriteHints("loop",
                              LegacyHints(RankedWindow, rule_last_shown, now),
                              Home, 0, FALSE, now).hints]_vars

\* the daemon runs without a readable kb.json and shows a built-in hint
C18_Witness ==
    /\ kbFile = "unreadable"
    /\ daemon = "running"
    /\ hintsFile.by = "loop"
    /\ hintsFile.hints # <<>>
    /\ hintsFile.hints = LegacyHints(LastN(cmdLog, WINDOW), EmptyDict, hintsFile.ts)

\* the `advisor` entries of the context log
AdvisorEntries(file) ==
    SelectSeq(file.lines, LAMBDA l : Parses(l) /\ Loads(l).type = "advisor")

\* C21: an Advisor run appends an `advisor` entry to the context log if and
\* only if its backend call returned non-empty text: the step that ends a run
\* whose call returned a text adds exactly one `advisor` entry holding that
\* text, at the end of the log, and the step that ends a run whose call
\* failed or returned nothing leaves the log as it was.
C21_AdvisorEntryIffResult ==
    [][\A id \in Alive(advisorTasks) :
          (advisorTasks[id].pc = "returned" /\ id \notin Alive(advisorTasks')) =>
             IF advisorTasks[id].result # None /\ advisorTasks[id].result # ""
             THEN /\ Len(AdvisorEntries(ctxFile')) = Len(AdvisorEntries(ctxFile)) + 1
                  /\ Loads(ctxFile'.lines[Len(ctxFile'.lines)]).text
                        = advisorTasks[id].result
             ELSE ctxFile' = ctxFile]_vars

\* one run has ended after an empty or failed call and left no entry, and a
\* later run has ended after a call that returned a text and left its entry
C21_Witness ==
    /\ advisor_thread = 2
    /\ Alive(advisorTasks) = {}
    /\ transportCalls = 2
    /\ Len(AdvisorEntries(ctxFile)) = 1

\* the entries of one type in the context log
EntriesOfType(file, ty) ==
    SelectSeq(file.lines, LAMBDA l : Parses(l) /\ Loads(l).type = ty)

\* C30, as stated: while an ambient-hint call is in flight every render of
\* the hint output is a render with the "thinking" placeholder.
C30_ThinkingWhileInFlight ==
    [][(hintsFile' # hintsFile /\ hintThread'.pc = "call") =>
          hintsFile'.thinking]_vars

\* C23, as stated: every non-empty query the expert tier consumes leaves a
\* `tip_q` entry in the context log, whatever the outcome, the special
\* subcommand included.
C23_EveryQueryLogged ==
    [][TipServed =>
          /\ Len(EntriesOfType(ctxFile', "tip_q"))
                = Len(EntriesOfType(ctxFile, "tip_q")) + 1
          /\ \E i \in 1..Len(ctxFile'.lines) :
                /\ Loads(ctxFile'.lines[i]).type = "tip_q"
                /\ Loads(ctxFile'.lines[i]).text = QueryStrip(tipQuery.lines[1])]_vars


\* ---- the post-mortem task (run(), run_post_mortem) and the model chain ----

HINT_MODEL_CHAIN == <<"gpt-5-mini", "raptor-mini", "gpt-4.1">>

\* what one _call_copilot, or one _call_backend, can return: None after a
\* failure, an empty text, or a text
CallResults == {None, "", "fix: trim the log"}

\* the `for model in chain` loop from the i-th model on: `if result: return
\* result`, and `return None` after the last one
RECURSIVE ChainFrom(_, _, _, _)
ChainFrom(ch, yields, i, tried) ==
    IF i > Len(ch)
    THEN [yields |-> yields, tried |-> tried, result |-> None]
    ELSE IF yields[i] # None /\ yields[i] # ""
         THEN [yields |-> yields, tried |-> Append(tried, ch[i]),
               result |-> yields[i]]
         ELSE ChainFrom(ch, yields, i + 1, Append(tried, ch[i]))

\* a chain that asks its first model only
CallCopilotChainFirst(models, yields) ==
    [yields |-> yields, tried |-> <<HINT_MODEL_CHAIN[1]>>,
     result |-> IF yields[1] \in {None, ""} THEN None ELSE yields[1]]

\* _call_copilot_chain(prompt, models), where the i-th _call_copilot returns
\* yields[i]; `chain = models or HINT_MODEL_CHAIN`
CallCopilotChain(models, yields) ==
    ChainFrom(IF models = <<>> THEN HINT_MODEL_CHAIN ELSE models, yields, 1, <<>>)

\* a line of the command log with nothing on it
BlankLine == [cmd |-> <<>>, cwd |-> ""]

\* re.match(r"^git\s+commit\b", cmd.strip())
IsGitCommit(cmd) == Len(cmd) >= 2 /\ cmd[1] = "git" /\ cmd[2] = "commit"

CmdGitCommit == <<"git", "commit">>
CmdGitStatus == <<"git", "status">>

PmCommands == {CmdGitCommit, CmdGitStatus}

MaxPmCmds == 4

\* `recent`, as the positions in cmdLog of its commands: the lines of
\* all_lines[-WINDOW:] that are not blank
RecentLines ==
    SelectSeq(LastN([i \in 1..Len(cmdLog) |-> i], WINDOW),
              LAMBDA i : cmdLog[i] # BlankLine)

\* new_cmds[-5:], where new_cmds = recent[-(current_count - last_cmd_count):]
NewCmdLines == LastN(LastN(RecentLines, Len(cmdLog) - last_cmd_count), 5)

\* the shell hook logs a command
PmNewCommand(c, dir) ==
    /\ Len(cmdLog) < MaxPmCmds
    /\ cmdLog' = Append(cmdLog, [cmd |-> c, cwd |-> dir])
    /\ UNCHANGED <<now, ticks, last_hint_check, last_cmd_count, last_cwd, last_ai_call,
                   rule_last_shown, hintThread, hintsFile>>
    /\ UNCHANGED outsideReflex

\* the log gets an empty line and then a command
PmBlankThenCommand(c, dir) ==
    /\ Len(cmdLog) + 1 < MaxPmCmds
    /\ cmdLog # <<>>
    /\ cmdLog' = cmdLog \o <<BlankLine, [cmd |-> c, cwd |-> dir]>>
    /\ UNCHANGED <<now, ticks, last_hint_check, last_cmd_count, last_cwd, last_ai_call,
                   rule_last_shown, hintThread, hintsFile>>
    /\ UNCHANGED outsideReflex

\* one iteration of `while True` in run(), as far as the post-mortem task is
\* concerned: the gate, `if has_new:` with the post-mortem trigger, and
\* `last_cmd_count = current_count`
PmIterate(d) ==
    LET current_count == Len(cmdLog)
        has_new       == current_count # last_cmd_count
        commits       == SelectSeq(NewCmdLines, LAMBDA i : IsGitCommit(cmdLog[i].cmd))
        start_pm      == /\ has_new
                         /\ ThreadFree(post_mortem_thread, pmTasks)
                         /\ commits # <<>>
                         /\ current_count # last_post_mortem_cmd
    IN
    /\ IF ~HintCheckDue
       THEN UNCHANGED <<last_hint_check, last_cmd_count, last_cwd, pmVars>>
       ELSE /\ last_hint_check' = now
            /\ IF TierRuns
               THEN /\ IF start_pm
                       THEN /\ post_mortem_thread' = post_mortem_thread + 1
                            /\ pmTasks' = StartThread(pmTasks, post_mortem_thread + 1,
                                                      current_count)
                            /\ last_post_mortem_cmd' = current_count
                       ELSE UNCHANGED <<post_mortem_thread, pmTasks,
                                        last_post_mortem_cmd>>
                    /\ last_cmd_count' = current_count
                    /\ last_cwd' = CurrentCwd
                    /\ UNCHANGED chain
               ELSE UNCHANGED <<last_cmd_count, last_cwd, pmVars>>
    /\ ticks < MaxTicks
    /\ ticks' = ticks + 1
    /\ now' = now + d
    /\ UNCHANGED <<cmdLog, last_ai_call, hintTasks, hint_thread, advisorTasks,
                   advisor_thread, last_advisor_call, last_advisor_cmd>>
    /\ UNCHANGED outsideTasks

\* run_post_mortem up to `if not result`: the chain for copilot, one
\* _call_backend(HINT_BACKEND, ...) otherwise; no look at _AVAILABLE_BACKENDS
PmCallReturns(id, yields) ==
    /\ id \in Alive(pmTasks)
    /\ pmTasks[id].pc = "call"
    /\ IF HINT_BACKEND = "copilot"
       THEN /\ chain' = CallCopilotChain(HINT_MODEL_CHAIN, yields)
            /\ pmTasks' = [pmTasks EXCEPT
                              ![id] = [pc |-> "returned", cc |-> @.cc,
                                       result |-> chain'.result]]
            /\ transportCalls' = transportCalls + Len(chain'.tried)
       ELSE /\ pmTasks' = [pmTasks EXCEPT
                              ![id] = [pc |-> "returned", cc |-> @.cc,
                                       result |-> yields[1]]]
            /\ transportCalls' = transportCalls + 1
            /\ UNCHANGED chain
    /\ UNCHANGED <<now, ticks, cmdLog, last_hint_check, last_cmd_count, last_cwd,
                   last_ai_call, hintTasks, hint_thread, advisorTasks, advisor_thread,
                   last_advisor_call, last_advisor_cmd, post_mortem_thread,
                   last_post_mortem_cmd>>
    /\ UNCHANGED <<kbVars, ctxVars, ioVars, startVars, rule_last_shown, hintThread,
                   hintsFile, TIP_BACKEND, availableBackends, tipQuery, tipResult,
                   postMortemOut, tipQueries>>

\* the rest of run_post_mortem: `if not result: return`, else the text goes
\* to post_mortem.txt and a post_mortem entry to the context log
PmTaskEnds(id) ==
    /\ id \in Alive(pmTasks)
    /\ pmTasks[id].pc = "returned"
    /\ pmTasks' = EndThread(pmTasks, id)
    /\ IF pmTasks[id].result \in {None, ""}
       THEN UNCHANGED <<postMortemOut, ctxFile, ctxLastWriter>>
       ELSE /\ postMortemOut' = FileOf(pmTasks[id].result)
            /\ ctxFile' = CtxAppended(ctxFile,
                               [type |-> "post_mortem",
                                text |-> pmTasks[id].result], now)
            /\ ctxLastWriter' = "post_mortem"
    /\ UNCHANGED <<now, ticks, cmdLog, last_hint_check, last_cmd_count, last_cwd,
                   last_ai_call, hintTasks, hint_thread, advisorTasks, advisor_thread,
                   last_advisor_call, last_advisor_cmd, post_mortem_thread,
                   last_post_mortem_cmd, chain>>
    /\ UNCHANGED <<kbVars, ctxTmp, ctxLock, ctxThreads, ioVars, startVars,
                   rule_last_shown, hintThread, hintsFile, TIP_BACKEND,
                   availableBackends, tipQuery, tipResult, transportCalls, tipQueries>>

PmInit ==
    /\ CopIdle
    /\ loopRead = LoopAtTop
    /\ hintsText = NoText
    /\ KBIdle
    /\ ReflexIdle
    /\ CtxIdle
    /\ TaskIdle
    /\ IoIdle
    /\ kbFile = "ok"
    /\ configFile = NoConfig
    /\ daemon = "running"
    /\ HINT_BACKEND \in {"copilot", "ollama"}
    /\ TIP_BACKEND = "copilot"
    /\ availableBackends \in {{}, {"copilot", "ollama"}}
    /\ tipQuery = NoFile
    /\ tipResult = NoFile
    /\ postMortemOut = NoFile
    /\ transportCalls = 0
    /\ tipQueries = 0

PmNext ==
    \/ \E c \in PmCommands, dir \in Dirs : PmNewCommand(c, dir)
    \/ \E c \in PmCommands, dir \in Dirs : PmBlankThenCommand(c, dir)
    \/ \E d \in StartSteps : PmIterate(d)
    \/ \E id \in Alive(pmTasks), yields \in [1..Len(HINT_MODEL_CHAIN) -> CallResults] :
          PmCallReturns(id, yields)
    \/ \E id \in Alive(pmTasks) : PmTaskEnds(id)

SpecPm == PmInit /\ [][PmNext]_vars

\* C22, as stated: a post-mortem task is started at most once per commit
\* command of the command log: every start finds no post-mortem task alive
\* and a commit command logged after the one the last task was started at.
C22_OncePerCommit ==
    [][post_mortem_thread' # post_mortem_thread =>
          /\ Alive(pmTasks) = {}
          /\ \E i \in (last_post_mortem_cmd + 1)..Len(cmdLog) :
                 IsGitCommit(cmdLog[i].cmd)]_vars

\* C26, as stated: a prompt is handed to the transport of a backend only if
\* the backend was probed available.
C26_OnlyAvailableBackendsCalled ==
    [][transportCalls' # transportCalls => HINT_BACKEND \in availableBackends]_vars

\* the chain call that `chain` records, told from what the models yielded
ChainHits == {i \in 1..Len(chain.yields) : chain.yields[i] \notin {None, ""}}

\* C25: _call_copilot_chain asks the models of the chain in their order,
\* returns the first non-empty result without asking a later model, and
\* returns None exactly when every model yields None or an empty text.
C25_ChainFirstNonEmpty ==
    chain # NoChain =>
        IF ChainHits = {}
        THEN chain.result = None /\ chain.tried = HINT_MODEL_CHAIN
        ELSE LET k == CHOOSE i \in ChainHits : \A j \in ChainHits : i <= j
             IN  /\ chain.result = chain.yields[k]
                 /\ chain.tried = SubSeq(HINT_MODEL_CHAIN, 1, k)

\* the second model answered after the first had not; the third was not asked
C25_Witness ==
    /\ chain.tried = SubSeq(HINT_MODEL_CHAIN, 1, 2)
    /\ chain.yields[1] \in {None, ""}
    /\ chain.result = chain.yields[2]
    /\ chain.yields[3] \notin {None, ""}


\* C29: the context log is always a contiguous suffix of the entries appended
\* so far, in the order of their appends: the file changes only when an
\* append renames its temporary file over it, and then it holds the lines it
\* held, in their order and less only some of the oldest of a full log,
\* followed by the appended line.
C29_LogIsSuffixOfAppends ==
    [][/\ ctxFile' # ctxFile =>
            \E t \in CtxThreads :
                ctxThreads[t].pc = "rename" /\ ctxThreads'[t].pc = "release"
       /\ \A t \in CtxThreads :
            (ctxThreads[t].pc = "rename" /\ ctxThreads'[t].pc = "release") =>
                LET old  == IF ctxFile.exists THEN ctxFile.lines ELSE <<>>
                    new  == ctxFile'.lines
                    keep == Len(new) - 1
                IN  /\ ctxFile'.exists
                    /\ new # <<>>
                    /\ new[Len(new)] = ctxThreads[t].line
                    /\ keep <= Len(old)
                    /\ SubSeq(new, 1, keep) = LastN(old, keep)
                    /\ keep < Len(old) => Len(new) = CTX_MAX]_vars

\* a full log after an append: its oldest line is gone, the others are in
\* place, the appended one is last
C29_Witness ==
    /\ ctxFile.exists
    /\ Len(ctxFile.lines) = CTX_MAX
    /\ ctxFile.lines[1] = OldLine(2)
    /\ ctxFile.lines[CTX_MAX - 1] = OldLine(CTX_MAX)
    /\ Loads(ctxFile.lines[CTX_MAX]).text[1] \in CtxThreads


\* ---- the reflex tier's entries in the context log (run(), lines 964-990) ----

\* rid.split("-")[0] for the rule ids of the model
IdPrefix(rid) ==
    CASE rid \in {"git-001", "git-002", "git-003"} -> "git"
      [] rid \in {"gnu-001", "gnu-002", "gnu-003"} -> "gnu"
      [] rid = "users-001" -> "users"
      [] rid = "gen-001" -> "gen"
      [] rid = "gpu-001" -> "gpu"
      [] OTHER -> rid

\* whether the loop appends a rule entry for a surfaced rule: with an engine,
\* only if `_buckets.get(rid.split("-")[0], []) + _generic` holds the rule
RuleLogged(rid) ==
    IF KBLoaded(kbBuckets, kbGeneric)
    THEN LET found == DictGet(kbBuckets, IdPrefix(rid), <<>>) \o kbGeneric
         IN  \E i \in 1..Len(found) : found[i].id = rid
    ELSE TRUE

\* `for rid, _ in rule_hints: ... ctx_append({"type": "rule", "id": rid, ...})`
RECURSIVE LogRules(_, _, _)
LogRules(file, hints, t) ==
    IF hints = <<>> THEN file
    ELSE LogRules(IF RuleLogged(Head(hints).rid)
                  THEN CtxAppended(file, [type |-> "rule", text |-> Head(hints).rid], t)
                  ELSE file,
                  Tail(hints), t)

\* `for c in new_cmds[-5:]: ctx_append({"type": "cmd", ...})`
RECURSIVE LogCmds(_, _, _)
LogCmds(file, lines, t) ==
    IF lines = <<>> THEN file
    ELSE LogCmds(CtxAppended(file, [type |-> "cmd", text |-> cmdLog[Head(lines)].cmd], t),
                 Tail(lines), t)

\* the iteration with what it appends to the context log
RulesIterate(d) ==
    /\ IterateLoop(d)
    /\ ctxFile' =
         IF TierRuns
         THEN LET logged == LogRules(ctxFile,
                                     GetRuleHints(kbBuckets, kbGeneric,
                                                  LastN(cmdLog, WINDOW),
                                                  rule_last_shown, now), now)
              IN  IF Len(cmdLog) # last_cmd_count
                  THEN LogCmds(logged, NewCmdLines, now)
                  ELSE logged
         ELSE ctxFile
    /\ ctxLastWriter' = IF ctxFile' # ctxFile THEN "loop" ELSE ctxLastWriter
    /\ UNCHANGED <<kbVars, ctxTmp, ctxLock, ctxThreads, taskVars, tipVars, ioVars,
                   startVars>>

RulesNext ==
    \/ \E c \in ReflexCommands, dir \in Dirs : NewCommand(c, dir)
    \/ \E d \in StartSteps : RulesIterate(d)
    \/ HintCallReturns
    \/ HintRender

SpecRules == ReflexInit /\ [][RulesNext]_vars

\* the ids of the rule entries of the context log, in their order
RuleIdsLogged(file) ==
    LET es == EntriesOfType(file, "rule")
    IN  [i \in 1..Len(es) |-> Loads(es[i]).text]

\* C27, as stated: an iteration that runs the reflex tier records the time
\* for every rule it surfaces and appends exactly one rule entry per surfaced
\* rule to the context log.
C27_EverySurfacedRuleLogged ==
    [][LoopRanks =>
         LET rule_hints == GetRuleHints(kbBuckets, kbGeneric, LastN(cmdLog, WINDOW),
                                        rule_last_shown, now)
         IN  /\ \A i \in 1..Len(rule_hints) :
                   /\ rule_hints[i].rid \in DOMAIN rule_last_shown'
                   /\ rule_last_shown'[rule_hints[i].rid] = now
             /\ RuleIdsLogged(ctxFile') =
                   RuleIdsLogged(ctxFile) \o
                       [i \in 1..Len(rule_hints) |-> rule_hints[i].rid]]_vars


\* ---- one iteration of run() in two steps: the trigger of the expert tier, ----
\* ---- then the gate and the tiers behind it                                ----

\* "^rm\s+" in a record without the key "id"
RuleNoId == Rule(None, "rm", Pat(TRUE, <<(<<"rm">>)>>, "more"), "warn", TRUE)
\* "^rm\s+" in a record without the key "severity"
RuleNoSeverity == Rule("gnu-004", "rm", Pat(TRUE, <<(<<"rm">>)>>, "more"), None, TRUE)

LoopCorpora == {<<RuleRm>>, <<RuleNoId>>, <<RuleNoSeverity>>}

LoopSteps == {POLL_INTERVAL, HINT_INTERVAL}

\* a loop that looks at the trigger only when the hint check is due
TipPollDueGated(t_now, last_check) == (t_now - last_check) >= HINT_INTERVAL

\* whether an iteration calls handle_tip_query(): the call is the first
\* statement of the loop body, before `now - last_hint_check` is looked at
TipPollDue(t_now, last_check) == TRUE

\* get_hints raises KeyError: `entry["id"]` for a match of the window,
\* `entry["severity"]` for a rule it selects
RuleRaises ==
    /\ KBLoaded(kbBuckets, kbGeneric)
    /\ LET ms    == KBMatches(kbBuckets, kbGeneric, LastN(cmdLog, WINDOW))
           hints == GetHints(kbBuckets, kbGeneric, LastN(cmdLog, WINDOW),
                             rule_last_shown, now, RULE_COOLDOWN)
       IN  \/ \E i \in 1..Len(ms) : ms[i].id = None
           \/ /\ \A i \in 1..Len(ms) : ms[i].id # None
              /\ \E i \in 1..Len(hints) : hints[i].severity = None

\* the head of the loop body: handle_tip_query()
LoopPoll(resp) ==
    /\ daemon = "running"
    /\ daemon' = "polled"
    /\ IF TipPollDue(now, last_hint_check) /\ tipQuery.exists
       THEN TipQueryHandled(resp)
       ELSE UNCHANGED <<tipVars, ctxFile, ctxLastWriter>>
    /\ UNCHANGED <<kbVars, reflexVars, taskVars, ioVars, kbFile, configFile,
                   HINT_BACKEND, ctxTmp, ctxLock, ctxThreads>>

\* the rest of the loop body; an exception of get_rule_hints is caught
\* nowhere in run() and ends the loop
LoopTiers(d) ==
    /\ daemon = "polled"
    /\ IF TierRuns /\ RuleRaises
       THEN /\ daemon' = "stopped"
            /\ last_hint_check' = now
            /\ UNCHANGED <<now, ticks, cmdLog, last_cmd_count, last_cwd, last_ai_call,
                           rule_last_shown, hintThread, hintsFile>>
       ELSE /\ daemon' = "running"
            /\ IterateLoop(d)
    /\ UNCHANGED <<kbVars, ctxVars, taskVars, tipVars, ioVars, kbFile, configFile,
                   HINT_BACKEND>>

LoopInit ==
    /\ CopIdle
    /\ loopRead = LoopAtTop
    /\ hintsText = NoText
    /\ kbCorpus \in LoopCorpora
    /\ kbBuckets = Load(kbCorpus).buckets
    /\ kbGeneric = Load(kbCorpus).generic
    /\ kbBad = Load(kbCorpus).bad
    /\ scanCmd = <<>>
    /\ scanToken = None
    /\ scanResult = <<>>
    /\ scanCalled = FALSE
    /\ ReflexIdle
    /\ CtxIdle
    /\ TaskIdle
    /\ IoIdle
    /\ StartIdle
    /\ TIP_BACKEND = "copilot"
    /\ availableBackends \in {{}, {"copilot"}}
    /\ tipQuery = NoFile
    /\ tipResult = NoFile
    /\ postMortemOut = NoFile
    /\ transportCalls = 0
    /\ tipQueries = 0

LoopNext ==
    \/ \E c \in StartCommands, dir \in Dirs : NewCommand(c, dir)
    \/ \E q \in Queries : UserAsks(q)
    \/ \E resp \in Responses : LoopPoll(resp)
    \/ \E d \in LoopSteps : LoopTiers(d)
    \/ HintCallReturns
    \/ HintRender

SpecLoop == LoopInit /\ [][LoopNext]_vars

\* C28, as stated: whatever a tier raises, a rule without an id or a severity
\* included, the control loop keeps running.
C28_LoopKeepsRunning == daemon # "stopped"

\* C24: every iteration of the control loop begins with the check of the
\* expert tier's trigger, whether or not the hint check is due and whether or
\* not there is a command log: the first step of an iteration leaves no
\* query pending and touches nothing of the other tiers, and the gate and the
\* tiers are reached only after it.
C24_TriggerCheckedFirst ==
    [][/\ (daemon = "running" /\ daemon' # daemon) =>
            /\ ~tipQuery'.exists
            /\ UNCHANGED <<reflexVars, taskVars>>
       /\ (ticks' # ticks \/ last_hint_check' # last_hint_check) =>
            daemon = "polled"]_vars

\* a query was taken up in an iteration that found the hint check not due
C24_Witness ==
    /\ daemon = "polled"
    /\ ticks >= 1
    /\ ~HintCheckDue
    /\ ~tipQuery.exists
    /\ \E i \in 1..Len(ctxFile.lines) :
          /\ Loads(ctxFile.lines[i]).type = "tip_q"
          /\ Loads(ctxFile.lines[i]).ts = Strftime(now)


-----------------------------------------------------------------------------
(* Uniqueness of rules in a loaded engine *)

\* the rules a loaded engine holds, bucket by bucket and then the generic list,
\* as the set of their places <<bucket key, index>>
LoadedPlaces ==
    {<<k, i>> : k \in DOMAIN kbBuckets, i \in 1..Len(kbCorpus)} \cup
    {<<None, i>> : i \in 1..Len(kbCorpus)}

RuleAt(pl) ==
    IF pl[1] = None THEN kbGeneric[pl[2]] ELSE kbBuckets[pl[1]][pl[2]]

HoldsRule(pl) ==
    IF pl[1] = None THEN pl[2] <= Len(kbGeneric) ELSE pl[2] <= Len(kbBuckets[pl[1]])

\* C36, as stated: after load no two rules the engine holds share an id, and
\* no two share a pattern.
C36_LoadedRulesUnique ==
    \A p, q \in {pl \in LoadedPlaces : HoldsRule(pl)} :
        p # q => /\ RuleAt(p).id # RuleAt(q).id
                 /\ RuleAt(p).pattern # RuleAt(q).pattern


-----------------------------------------------------------------------------
(* The Copilot backend: backends/copilot.py, and _call_copilot of the daemon *)

\* a cached token is reused while it expires more than this many seconds ahead
TOKEN_SLACK == 60

\* the lifetimes the token endpoint grants, in seconds
TokenLifetimes == {45, 150}

CopStep == 30

MaxCopTime == 180

\* what the chat completions endpoint answers a POST with
HttpOutcomes == {"ok", "401", "500", "timeout"}

\* the text of choices[0].message.content, stripped
ReplyText == "try: rm -i"

\* a token cached by a refresh whose token expires at e
Cached(e) == [exists |-> TRUE, expires_at |-> e]

\* a get_copilot_token that reuses a cached token until the second it expires
GetCopilotTokenNoSlack(cache, t_now, gh, refreshed, ttl) ==
    IF cache.exists /\ cache.expires_at > t_now
    THEN [token |-> TRUE, reused |-> TRUE, cache |-> cache]
    ELSE IF ~gh \/ ~refreshed
         THEN [token |-> FALSE, reused |-> FALSE, cache |-> cache]
         ELSE [token |-> TRUE, reused |-> FALSE, cache |-> Cached(t_now + ttl)]

\* get_copilot_token(): the cached token while it expires more than
\* TOKEN_SLACK seconds from now; otherwise the GitHub token of VS Code (gh:
\* there is one) is exchanged (refreshed: the exchange succeeds, for a token
\* that lives ttl seconds) and the new token is written to the cache
GetCopilotToken(cache, t_now, gh, refreshed, ttl) ==
    IF cache.exists /\ cache.expires_at > t_now + TOKEN_SLACK
    THEN [token |-> TRUE, reused |-> TRUE, cache |-> cache]
    ELSE IF ~gh \/ ~refreshed
         THEN [token |-> FALSE, reused |-> FALSE, cache |-> cache]
         ELSE [token |-> TRUE, reused |-> FALSE, cache |-> Cached(t_now + ttl)]

\* call_copilot(prompt, model): what it returns and the cache it leaves
CallCopilot(cache, t_now, gh, refreshed, ttl, http) ==
    LET tk == GetCopilotToken(cache, t_now, gh, refreshed, ttl) IN
    IF ~tk.token
    THEN [result |-> None, cache |-> tk.cache, posted |-> FALSE, reused |-> FALSE]
    ELSE [result |-> IF http = "ok" THEN ReplyText ELSE None,
          cache |-> IF http = "401" THEN NoCache ELSE tk.cache,
          posted |-> TRUE, reused |-> tk.reused]

\* the parameters of call_copilot
CallCopilotParams == {"prompt", "model"}

\* the keyword arguments _call_copilot passes along with the prompt
DaemonKeywords == {"model", "max_tokens"}

\* _call_copilot(prompt, model, max_tokens): a keyword call_copilot does not
\* take raises TypeError before its body runs, and the except clause returns None
CallCopilotDaemon(cache, t_now, gh, refreshed, ttl, http) ==
    IF DaemonKeywords \subseteq CallCopilotParams
    THEN CallCopilot(cache, t_now, gh, refreshed, ttl, http)
    ELSE [result |-> None, cache |-> cache, posted |-> FALSE, reused |-> FALSE]

CallRecord(via, gh, refreshed, ttl, http, r) ==
    [via |-> via, before |-> tokenCache, at |-> copNow, gh |-> gh /\ refreshed,
     refresh |-> ttl, http |-> http, posted |-> r.posted, reused |-> r.reused,
     result |-> r.result]

outsideCop == <<kbVars, reflexVars, ctxVars, taskVars, tipVars, tipTmp, writers,
                loopRead, hintsText, startVars>>

CopTick ==
    /\ copNow + CopStep <= MaxCopTime
    /\ copNow' = copNow + CopStep
    /\ UNCHANGED <<tokenCache, copCall, outsideCop>>

\* call_copilot called as it is defined
CopCallDirect(gh, refreshed, ttl, http) ==
    LET r == CallCopilot(tokenCache, copNow, gh, refreshed, ttl, http) IN
    /\ tokenCache' = r.cache
    /\ copCall' = CallRecord("call_copilot", gh, refreshed, ttl, http, r)
    /\ UNCHANGED <<copNow, outsideCop>>

\* a tier of the daemon calls _call_copilot
CopCallDaemon(gh, refreshed, ttl, http) ==
    LET r == CallCopilotDaemon(tokenCache, copNow, gh, refreshed, ttl, http) IN
    /\ tokenCache' = r.cache
    /\ copCall' = CallRecord("_call_copilot", gh, refreshed, ttl, http, r)
    /\ UNCHANGED <<copNow, outsideCop>>

CopInit ==
    /\ tokenCache \in {NoCache} \cup {Cached(ttl) : ttl \in TokenLifetimes}
    /\ copNow = 0
    /\ copCall = NoCall
    /\ loopRead = LoopAtTop
    /\ hintsText = NoText
    /\ KBIdle
    /\ ReflexIdle
    /\ CtxIdle
    /\ TaskIdle
    /\ StartIdle
    /\ TIP_BACKEND = "copilot"
    /\ availableBackends = {"copilot"}
    /\ tipQuery = NoFile
    /\ tipResult = NoFile
    /\ postMortemOut = NoFile
    /\ transportCalls = 0
    /\ tipQueries = 0
    /\ tipTmp = NoFile
    /\ writers = [w \in Writers |-> [pc |-> "idle", text |-> <<>>]]

CopNext ==
    \/ CopTick
    \/ \E gh, refreshed \in BOOLEAN, ttl \in TokenLifetimes, http \in HttpOutcomes :
          CopCallDirect(gh, refreshed, ttl, http)
    \/ \E gh, refreshed \in BOOLEAN, ttl \in TokenLifetimes, http \in HttpOutcomes :
          CopCallDaemon(gh, refreshed, ttl, http)

SpecCopilot == CopInit /\ [][CopNext]_vars

\* the last call was call_copilot itself and its POST failed otherwise than
\* with HTTP 401, or no token could be derived for it
OtherFailure ==
    /\ copCall.via = "call_copilot"
    /\ \/ ~copCall.posted
       \/ copCall.http \in {"500", "timeout"}

AuthFailure ==
    copCall.via = "call_copilot" /\ copCall.posted /\ copCall.http = "401"

\* C37, as stated: a call that fails with HTTP 401 deletes the cached token
\* and returns none; a call that fails in any other way returns none and
\* leaves the cache as it was before the call; a cached token is reused only
\* while it expires more than 60 seconds ahead.
C37_OtherFailureKeepsCache ==
    /\ AuthFailure => (copCall.result = None /\ ~tokenCache.exists)
    /\ OtherFailure => (copCall.result = None /\ tokenCache = copCall.before)
    /\ (copCall.via = "call_copilot" /\ copCall.reused) =>
          (copCall.before.exists /\ copCall.before.expires_at > copCall.at + 60)

\* C37, amended: a call that fails with HTTP 401 deletes the cached token and
\* returns none, so that no later call reuses it; a call that fails in any
\* other way returns none and deletes nothing: the cache is what token
\* derivation left, the cache of before the call when the cached token was
\* reused or no token could be derived, and the newly derived token otherwise;
\* a cached token is reused only while it expires more than 60 seconds ahead.
C37_FailureCacheHandling ==
    /\ AuthFailure => (copCall.result = None /\ ~tokenCache.exists)
    /\ OtherFailure =>
          /\ copCall.result = None
          /\ tokenCache = IF copCall.reused \/ ~copCall.gh THEN copCall.before
                          ELSE Cached(copCall.at + copCall.refresh)
    /\ (copCall.via = "call_copilot" /\ copCall.reused) =>
          (copCall.before.exists /\ copCall.before.expires_at > copCall.at + 60)

C37_Witness ==
    /\ AuthFailure /\ copCall.reused /\ copCall.before.exists
    /\ ~tokenCache.exists /\ copCall.result = None

\* C40, as stated: when Copilot is probed available and its transport would
\* answer the prompt with a text (a token can be had and the POST succeeds),
\* _call_copilot returns that text.
C40_CopilotReturnsText ==
    (/\ copCall.via = "_call_copilot"
     /\ "copilot" \in availableBackends
     /\ copCall.http = "ok"
     /\ \/ copCall.gh
        \/ copCall.before.exists /\ copCall.before.expires_at > copCall.at + TOKEN_SLACK)
    => copCall.result = ReplyText


\* C34, as stated: rule_last_shown, last_cmd_count, last_cwd, last_hint_check
\* and last_ai_call are written only by an iteration of the control loop:
\* every step that changes one of them is such an iteration.
C34_OnlyLoopWritesSession ==
    [][<<rule_last_shown, last_cmd_count, last_cwd, last_hint_check, last_ai_call>>' #
       <<rule_last_shown, last_cmd_count, last_cwd, last_hint_check, last_ai_call>>
       => ticks' = ticks + 1]_vars


\* C38, as stated: the command count shown in the hint output never goes down
\* from one write to the next, whoever writes.
C38_CountNeverDecreases ==
    [][hintsFile'.cc >= hintsFile.cc]_vars


\* C39, as stated: when the ambient-hint task finishes and the hint output
\* still is the render the control loop made when it started the task (no
\* command was logged since), the task's final render shows the same reflex
\* hints as that render.
C39_FinalRenderKeepsHints ==
    [][(/\ hintThread.pc = "render"
        /\ hintThread'.pc = "none"
        /\ hintsFile.by = "loop"
        /\ hintsFile.thinking
        /\ hintsFile.cc = hintThread.cc
        /\ Len(cmdLog) = hintThread.cc)
       => hintsFile'.hints = hintsFile.hints]_vars


-----------------------------------------------------------------------------
(* The throttle of the ambient tier, with the iteration in two steps: the    *)
(* loop evaluates ai_ready from last_ai_call (line 959), and decides on the  *)
(* start of a task later (line 1005); the task writes last_ai_call between.  *)

outsideThrottle == <<kbVars, ctxVars, taskVars, tipVars, tipTmp, writers, copVars,
                     hintsText, startVars>>

\* lines 935-959: the check is due, and ai_ready is evaluated
ThrottleRead ==
    /\ loopRead.pc = "top"
    /\ HintCheckDue
    /\ ticks < MaxTicks
    /\ loopRead' = [pc |-> "read", ai_ready |-> (now - last_ai_call) > AI_THROTTLE]
    /\ UNCHANGED <<reflexVars, outsideThrottle>>

\* the rest of the iteration, or the whole of one whose check is not due
ThrottleRest(d) ==
    /\ loopRead.pc = "read" \/ ~HintCheckDue
    /\ IterateWith(d, loopRead.ai_ready)
    /\ loopRead' = LoopAtTop
    /\ UNCHANGED outsideThrottle

ThrottleNext ==
    \/ \E c \in StartCommands, dir \in Dirs : NewCommand(c, dir)
    \/ ThrottleRead
    \/ \E d \in TimeSteps : ThrottleRest(d)
    \/ HintCallReturns
    \/ HintRender

SpecThrottle == ReflexInit /\ [][ThrottleNext]_vars

\* C35, as stated: every step that starts an ambient-hint task is taken more
\* than AI_THROTTLE seconds after the previous ambient call returned, and in
\* an iteration that sees a new command or a new directory.
C35_StartsThrottled ==
    [][(hintThread.pc = "none" /\ hintThread'.pc = "call")
       => /\ (now - last_ai_call) > AI_THROTTLE
          /\ Len(cmdLog) # last_cmd_count \/ CurrentCwd # last_cwd]_vars


\* C32: whenever the control loop or the ambient-hint task ranks the rules of
\* a loaded engine, get_hints returns at most 3 hints, each for a different
\* rule id that matched a command of the window, each with that rule's number
\* of matches over the window, in order of non-increasing number of matches;
\* and a matching rule that is not in cooldown is left out only if 3 hints of
\* rules with at least as many matches were returned.
C32_TopThreeByFrequency ==
    [][((LoopRanks \/ TaskRanks) /\ KBLoaded(kbBuckets, kbGeneric)) =>
         LET h   == hintsFile'.hints
             ms  == KBMatches(kbBuckets, kbGeneric, RankedWindow)
             ids == {ms[i].id : i \in 1..Len(ms)}
         IN  /\ Len(h) <= 3
             /\ \A i, j \in 1..Len(h) : i # j => h[i].rid # h[j].rid
             /\ \A i \in 1..Len(h) :
                   /\ h[i].rid \in ids
                   /\ h[i].count = CountOf(h[i].rid, ms)
                   /\ h[i].count >= 1
             /\ \A i, j \in 1..Len(h) : i < j => h[i].count >= h[j].count
             /\ \A rid \in ids \ HintIds(h) :
                   ~InCooldown(rid, rule_last_shown, now, RULE_COOLDOWN) =>
                       /\ Len(h) = 3
                       /\ \A i \in 1..Len(h) : h[i].count >= CountOf(rid, ms)]_vars

\* the loop has ranked a window in which more than three rules match: three
\* hints are shown and a fourth matching rule is left out
C32_Witness ==
    LET ms == KBMatches(kbBuckets, kbGeneric, LastN(cmdLog, WINDOW)) IN
    /\ KBLoaded(kbBuckets, kbGeneric)
    /\ hintsFile.by = "loop"
    /\ hintsFile.cc = Len(cmdLog)
    /\ Len(hintsFile.hints) = 3
    /\ \E i \in 1..Len(ms) : ms[i].id \notin HintIds(hintsFile.hints)


-----------------------------------------------------------------------------
(* write_hints: the text of the hint output.  A string is the sequence of    *)
(* the lines it holds (one more than its newlines); "\n".join of a list of   *)
(* strings holds the lines of all of them.                                   *)

MAX_HINT_LINES == 10

\* the most ambient lines write_hints shows
ShownAiLines == 5

MaxRuleHints == 4

\* a hint string whose {arg} is on one line, and one whose {arg} is the rest
\* of a command entered on two lines (`rm -rf build \` / `  dist`)
HintOneLine == <<"[2x] rm -> trash -rf build">>
HintTwoLines == <<"[2x] rm -> trash -rf build \\", "  dist">>

\* the hint strings of the (id, hint) pairs get_rule_hints returns
RuleHintStrs ==
    UNION {[1..n -> {HintOneLine, HintTwoLines}] : n \in 0..MaxRuleHints}

\* texts the ambient tier hands over, line by line: none, blank, one line,
\* lines with a blank one between, and more lines than are shown
AiTexts ==
    {<<>>, <<" ">>, <<"use fd">>, <<"use fd", "", " try rg ">>,
     <<"t1", "t2", "t3", "t4", "t5", "t6", "t7">>}

FirstN(s, n) == IF Len(s) <= n THEN s ELSE SubSeq(s, 1, n)

\* l.strip() of a line of the model's texts
StripLine(l) ==
    CASE l = " " -> ""
      [] l = " try rg " -> "try rg"
      [] OTHER -> l

\* [l.strip() for l in ai_hints.splitlines() if l.strip()]
RECURSIVE NonBlankLines(_)
NonBlankLines(ls) ==
    IF ls = <<>> THEN <<>>
    ELSE IF StripLine(Head(ls)) = "" THEN NonBlankLines(Tail(ls))
    ELSE <<StripLine(Head(ls))>> \o NonBlankLines(Tail(ls))

\* the padding loop `while len(lines) < MAX_HINT_LINES + 2: lines.append("")`
RECURSIVE PadLines(_)
PadLines(lines) ==
    IF Len(lines) < MAX_HINT_LINES + 2 THEN PadLines(Append(lines, <<"">>)) ELSE lines

\* the list `lines` write_hints builds, each element a string
HintLines(hint_strs, ai_hints, thinking) ==
    LET head     == << <<"HINTS  ~  [12:00]  (2 cmds)">>, <<"----------">> >>
        dot      == IF hint_strs # <<>> THEN << <<".">> >> ELSE <<>>
        ai_lines == FirstN(NonBlankLines(ai_hints), ShownAiLines)
        ai_part  ==
            IF thinking /\ ai_hints = <<>> THEN dot \o << <<"thinking ...">> >>
            ELSE IF ai_hints # <<>> /\ ai_lines # <<>>
                 THEN dot \o [i \in 1..Len(ai_lines) |-> <<ai_lines[i]>>]
                 ELSE <<>>
    IN  PadLines(head \o FirstN(hint_strs, ShownHints) \o ai_part)

\* the text write_text receives: "\n".join(lines[:MAX_HINT_LINES + 2])
WriteHintsText(hint_strs, ai_hints, thinking) ==
    Flatten(FirstN(HintLines(hint_strs, ai_hints, thinking), MAX_HINT_LINES + 2))

outsideWrite == <<kbVars, reflexVars, ctxVars, taskVars, tipVars, tipTmp, writers,
                  copVars, loopRead, startVars>>

\* write_hints(rule_hints, ai_hints, cwd, cmd_count, thinking)
WriteHintsCall(hint_strs, ai_hints, thinking) ==
    /\ hintsText' = [called |-> TRUE, rule_hints |-> hint_strs, ai_hints |-> ai_hints,
                     thinking |-> thinking,
                     text |-> WriteHintsText(hint_strs, ai_hints, thinking)]
    /\ UNCHANGED outsideWrite

WriteInit ==
    /\ CopIdle
    /\ loopRead = LoopAtTop
    /\ hintsText = NoText
    /\ KBIdle
    /\ ReflexIdle
    /\ CtxIdle
    /\ TaskIdle
    /\ IoIdle
    /\ StartIdle
    /\ TipIdle

WriteNext ==
    \E hs \in RuleHintStrs, ai \in AiTexts, th \in BOOLEAN : WriteHintsCall(hs, ai, th)

SpecWrite == WriteInit /\ [][WriteNext]_vars

\* C31, as stated: every text write_hints writes has exactly MAX_HINT_LINES + 2
\* lines, whatever rule hints and ambient text it is given.
C31_AlwaysTwelveLines ==
    hintsText.called => Len(hintsText.text) = MAX_HINT_LINES + 2

=============================================================================
